---------------------------- MODULE Spec2Model ----------------------------
(***************************************************************************)
(* Model of the document field-extraction pipeline of trafficfines:        *)
(*   src/src/trafficfines/pdf/parsing_strategies.py  (three strategies and *)
(*                                                    MultiStrategyParser) *)
(*   src/src/trafficfines/pdf/validator.py           (FineDataValidator)   *)
(*   src/src/trafficfines/pdf/field_config.py        (FieldMappingConfig)  *)
(*   src/src/trafficfines/utils/helpers.py           (parse_date)          *)
(*                                                                         *)
(* Text is modelled at character level: a Python str is a sequence of      *)
(* one-character strings, so that startswith, strip, split, replace, the   *)
(* regular-expression search and substring tests are computed as the code  *)
(* computes them.                                                          *)
(***************************************************************************)
EXTENDS Integers, Sequences, FiniteSets, TLC

(***************************************************************************)
(* Characters and Python str methods                                       *)
(***************************************************************************)
Digits == <<"0", "1", "2", "3", "4", "5", "6", "7", "8", "9">>

Uppers == <<"A", "B", "C", "D", "E", "F", "G", "H", "I", "J", "K", "L", "M",
            "N", "O", "P", "Q", "R", "S", "T", "U", "V", "W", "X", "Y", "Z">>

Lowers == <<"a", "b", "c", "d", "e", "f", "g", "h", "i", "j", "k", "l", "m",
            "n", "o", "p", "q", "r", "s", "t", "u", "v", "w", "x", "y", "z">>

IsSpace(c) == c \in {" ", "\n", "\t"}

IsDigit(c) == \E i \in 1..10 : Digits[i] = c

DigitVal(c) == (CHOOSE i \in 1..10 : Digits[i] = c) - 1

IsUpper(c) == \E i \in 1..26 : Uppers[i] = c

IsLower(c) == \E i \in 1..26 : Lowers[i] = c

\* str.lower() / str.upper() on one character
Lower(c) == IF IsUpper(c) THEN Lowers[CHOOSE i \in 1..26 : Uppers[i] = c] ELSE c

Upper(c) == IF IsLower(c) THEN Uppers[CHOOSE i \in 1..26 : Lowers[i] = c] ELSE c

LowerStr(s) == [i \in 1..Len(s) |-> Lower(s[i])]

UpperStr(s) == [i \in 1..Len(s) |-> Upper(s[i])]

SetMin(S) == CHOOSE x \in S : \A y \in S : x <= y

SetMax(S) == CHOOSE x \in S : \A y \in S : x >= y

\* str.strip(): leading and trailing whitespace removed
Strip(s) ==
    LET idx == {i \in 1..Len(s) : ~IsSpace(s[i])}
    IN  IF idx = {} THEN <<>> ELSE SubSeq(s, SetMin(idx), SetMax(idx))

\* s[i:].startswith(p), i counted from 1
StartsWithAt(s, p, i) ==
    /\ i + Len(p) - 1 <= Len(s)
    /\ \A k \in 1..Len(p) : s[i + k - 1] = p[k]

\* s.startswith(p)
StartsWith(s, p) == StartsWithAt(s, p, 1)

\* p in s
Contains(s, p) == \E i \in 1..(Len(s) - Len(p) + 1) : StartsWithAt(s, p, i)

\* index of the first occurrence of the character c in s, 0 when absent
IndexOf(s, c) ==
    LET idx == {i \in 1..Len(s) : s[i] = c}
    IN  IF idx = {} THEN 0 ELSE SetMin(idx)

\* s.split(c) for a one-character separator: the list of segments
RECURSIVE Split(_, _)
Split(s, c) ==
    LET i == IndexOf(s, c)
    IN  IF i = 0 THEN <<s>>
        ELSE <<SubSeq(s, 1, i - 1)>> \o Split(SubSeq(s, i + 1, Len(s)), c)

\* s.replace(p, r) for a non-empty p: non-overlapping occurrences, left to right
RECURSIVE Replace(_, _, _)
Replace(s, p, r) ==
    IF s = <<>> THEN <<>>
    ELSE IF StartsWith(s, p)
         THEN r \o Replace(SubSeq(s, Len(p) + 1, Len(s)), p, r)
         ELSE <<s[1]>> \o Replace(Tail(s), p, r)

\* the lines of a text joined by "\n"
RECURSIVE JoinLines(_)
JoinLines(ls) ==
    IF ls = <<>> THEN <<>>
    ELSE IF Len(ls) = 1 THEN ls[1]
         ELSE ls[1] \o <<"\n">> \o JoinLines(Tail(ls))

RECURSIVE Pow10(_)
Pow10(k) == IF k = 0 THEN 1 ELSE 10 * Pow10(k - 1)

\* the number written by a sequence of digits (0 for the empty sequence)
RECURSIVE DigitsVal(_)
DigitsVal(ds) ==
    IF ds = <<>> THEN 0
    ELSE DigitsVal(SubSeq(ds, 1, Len(ds) - 1)) * 10 + DigitVal(ds[Len(ds)])

AllDigits(s) == \A i \in 1..Len(s) : IsDigit(s[i])

(***************************************************************************)
(* Python values.  Every value is a record of one shape:                   *)
(*   t = "none"  None                                                      *)
(*   t = "str"   a str, s its characters                                   *)
(*   t = "num"   an int or float, the decimal number n / 10^e, normalised  *)
(*               so that equal numbers are equal records                   *)
(*   t = "date"  a datetime.date, n = year*10000 + month*100 + day, which  *)
(*               orders as dates do                                        *)
(*   t = "datetime" a datetime.datetime (a subclass of date), n as for a   *)
(*               date; comparing it with a date raises TypeError           *)
(*   t = "other" an object of any other type, true and without an order    *)
(*               (a non-empty dict)                                        *)
(***************************************************************************)
None == [t |-> "none", s |-> <<>>, n |-> 0, e |-> 0]

Str(s) == [t |-> "str", s |-> s, n |-> 0, e |-> 0]

RECURSIVE Num(_, _)
Num(n, e) ==
    IF e > 0 /\ n % 10 = 0 THEN Num(n \div 10, e - 1)
    ELSE [t |-> "num", s |-> <<>>, n |-> n, e |-> e]

IntV(n) == Num(n, 0)

DateV(y, m, d) == [t |-> "date", s |-> <<>>, n |-> y * 10000 + m * 100 + d, e |-> 0]

Other == [t |-> "other", s |-> <<>>, n |-> 0, e |-> 0]

\* bool(v): None, "" and 0 are false
Truthy(v) ==
    CASE v.t = "none" -> FALSE
      [] v.t = "str"  -> v.s # <<>>
      [] v.t = "num"  -> v.n # 0
      [] OTHER        -> TRUE

\* a < b for two numbers n/10^e
NumLess(a, b) == a.n * Pow10(b.e) < b.n * Pow10(a.e)

Get(rec, k) == IF k \in DOMAIN rec THEN rec[k] ELSE None

\* rec[k] = v on a dict
Put(rec, k, v) == [x \in (DOMAIN rec) \cup {k} |-> IF x = k THEN v ELSE rec[x]]

\* dict.update
Update(rec, other) ==
    [x \in (DOMAIN rec) \cup (DOMAIN other) |->
        IF x \in DOMAIN other THEN other[x] ELSE rec[x]]

EmptyDict == [x \in {} |-> None]

(***************************************************************************)
(* float(str): optional sign, digits with an optional fraction.  The       *)
(* exponent, inf/nan and underscore forms need characters that no amount   *)
(* text of the bounded inputs holds.                                       *)
(***************************************************************************)
ParseFloat(s0) ==
    LET s      == Strip(s0)
        signed == s # <<>> /\ s[1] \in {"+", "-"}
        neg    == s # <<>> /\ s[1] = "-"
        body   == IF signed THEN Tail(s) ELSE s
        dot    == IndexOf(body, ".")
        ip     == IF dot = 0 THEN body ELSE SubSeq(body, 1, dot - 1)
        fp     == IF dot = 0 THEN <<>> ELSE SubSeq(body, dot + 1, Len(body))
        ok     == AllDigits(ip) /\ AllDigits(fp) /\ Len(ip) + Len(fp) > 0
        mag    == DigitsVal(ip \o fp)
    IN  IF ok THEN [ok |-> TRUE, v |-> Num(IF neg THEN 0 - mag ELSE mag, Len(fp))]
        ELSE [ok |-> FALSE, v |-> None]

(***************************************************************************)
(* utils/helpers.py parse_date with LOCALE date_format '%d/%m/%Y'          *)
(***************************************************************************)
IsLeap(y) == (y % 4 = 0 /\ y % 100 # 0) \/ y % 400 = 0

DaysIn(y, m) ==
    IF m \in {4, 6, 9, 11} THEN 30
    ELSE IF m = 2 THEN (IF IsLeap(y) THEN 29 ELSE 28)
    ELSE 31

\* strptime's %d: 3[0-1] | [1-2]\d | 0[1-9] | [1-9] | " "[1-9]
DayDirective(d) ==
    \/ Len(d) \in {1, 2} /\ AllDigits(d) /\ DigitsVal(d) \in 1..31
    \/ Len(d) = 2 /\ d[1] = " " /\ IsDigit(d[2]) /\ DigitVal(d[2]) \in 1..9

DayValue(d) == IF d[1] = " " THEN DigitVal(d[2]) ELSE DigitsVal(d)

\* strptime's %m: 1[0-2] | 0[1-9] | [1-9]
MonthDirective(m) == Len(m) \in {1, 2} /\ AllDigits(m) /\ DigitsVal(m) \in 1..12

\* strptime's %Y: \d\d\d\d, and datetime needs year >= 1
YearDirective(y) == Len(y) = 4 /\ AllDigits(y) /\ DigitsVal(y) >= 1

parse_date(date_str) ==
    IF date_str = <<>> THEN None
    ELSE LET parts == Split(date_str, "/")
         IN  IF /\ Len(parts) = 3
                /\ DayDirective(parts[1])
                /\ MonthDirective(parts[2])
                /\ YearDirective(parts[3])
                /\ DayValue(parts[1]) <= DaysIn(DigitsVal(parts[3]), DigitsVal(parts[2]))
             THEN DateV(DigitsVal(parts[3]), DigitsVal(parts[2]), DayValue(parts[1]))
             ELSE None

(***************************************************************************)
(* Candidate records and strategy results                                  *)
(***************************************************************************)
DateKeys == {"notification_date", "defense_due_date", "driver_id_due_date",
             "violation_date"}

CanonicalFields ==
    {"fine_number", "notification_date", "defense_due_date",
     "driver_id_due_date", "license_plate", "vehicle_model",
     "violation_location", "violation_date", "violation_time",
     "violation_code", "amount", "description", "measured_speed",
     "considered_speed", "speed_limit", "owner_name", "owner_document"}

\* _initialize_fine_data: every field None, amount 0.0, pdf_path the path
InitFineData(pdf_path) ==
    [k \in CanonicalFields \cup {"pdf_path"} |->
        IF k = "amount" THEN Num(0, 0)
        ELSE IF k = "pdf_path" THEN Str(pdf_path)
        ELSE None]

\* What a strategy's parse gives its caller: a dict (some), None, or an
\* exception that leaves parse (raised).
ReturnDict(rec) == [raised |-> FALSE, some |-> TRUE, rec |-> rec]

ReturnNone == [raised |-> FALSE, some |-> FALSE, rec |-> EmptyDict]

Raise == [raised |-> TRUE, some |-> FALSE, rec |-> EmptyDict]

\* "if fine_data.get('fine_number'): return fine_data / else: return None",
\* the closing check of all three strategies
ReturnIfFineNumber(fine_data) ==
    IF Truthy(Get(fine_data, "fine_number")) THEN ReturnDict(fine_data)
    ELSE ReturnNone

\* Faulty variant of ExceptReturnNone: no except clause, the exception leaves parse
Propagate(r) == r

\* "except Exception as e: ... return None" around a strategy's body
ExceptReturnNone(r) == IF r.raised THEN ReturnNone ELSE r

\* Faulty variant of AmountToFloat: float() on the raw text
FloatWithoutCleaning(value) ==
    IF ParseFloat(value).ok THEN ParseFloat(value).v ELSE Num(0, 0)

\* amount text to float: strip "R$", drop ".", "," becomes ".", then float();
\* ValueError gives 0.0
AmountToFloat(value) ==
    LET amount_str ==
            Strip(Replace(Replace(Replace(value, <<"R", "$">>, <<>>),
                                  <<".">>, <<>>), <<",">>, <<".">>))
        f == ParseFloat(amount_str)
    IN  IF f.ok THEN f.v ELSE Num(0, 0)

\* "for pdf_field, canonical_key in field_mapping.items(): if <match>: ... break":
\* the first of the indices (dict order) of the entries that match, 0 when
\* none does
FirstEntry(matching) == IF matching = {} THEN 0 ELSE SetMin(matching)

(***************************************************************************)
(* StructuredParsingStrategy                                               *)
(***************************************************************************)
\* [line.strip() for line in text.split('\n') if line.strip()]
RECURSIVE StrippedNonEmpty(_)
StrippedNonEmpty(ls) ==
    IF ls = <<>> THEN <<>>
    ELSE IF Strip(Head(ls)) = <<>> THEN StrippedNonEmpty(Tail(ls))
         ELSE <<Strip(Head(ls))>> \o StrippedNonEmpty(Tail(ls))

StructuredLines(text) == StrippedNonEmpty(Split(text, "\n"))

\* the scan over the lines: current_field ("" for None) and field_value_pairs
RECURSIVE StructuredScan(_, _, _, _)
StructuredScan(lines, field_mapping, current_field, field_value_pairs) ==
    IF lines = <<>> THEN field_value_pairs
    ELSE LET line == Head(lines)
             i    == FirstEntry({k \in 1..Len(field_mapping) :
                                    StartsWith(line, field_mapping[k][1])})
         IN  IF i # 0
             THEN StructuredScan(Tail(lines), field_mapping, field_mapping[i][2],
                                 Put(field_value_pairs, field_mapping[i][2], <<>>))
             ELSE IF current_field # "" /\ field_value_pairs[current_field] = <<>>
                  THEN StructuredScan(Tail(lines), field_mapping, current_field,
                                      Put(field_value_pairs, current_field, <<line>>))
                  ELSE StructuredScan(Tail(lines), field_mapping, current_field,
                                      field_value_pairs)

\* Faulty variant of StructuredFieldValue: every value is kept as its text
NoCoercion(key, values) == Str(IF values # <<>> THEN values[1] ELSE <<>>)

\* StructuredParsingStrategy._process_field_values, one key
StructuredFieldValue(key, values) ==
    LET value == IF values # <<>> THEN values[1] ELSE <<>>
    IN  IF key \in DateKeys THEN parse_date(value)
        ELSE IF key = "amount" THEN AmountToFloat(value)
        ELSE Str(value)

ProcessFieldValues(fine_data, field_value_pairs) ==
    [k \in (DOMAIN fine_data) \cup (DOMAIN field_value_pairs) |->
        IF k \in DOMAIN field_value_pairs
        THEN StructuredFieldValue(k, field_value_pairs[k])
        ELSE fine_data[k]]

\* fine_data as it stands at the closing check of StructuredParsingStrategy.parse
StructuredFineData(pdf_path, text, field_mapping) ==
    ProcessFieldValues(InitFineData(pdf_path),
                       StructuredScan(StructuredLines(text), field_mapping, "",
                                      [x \in {} |-> <<>>]))

StructuredParse(pdf_path, text, field_mapping) ==
    ExceptReturnNone(ReturnIfFineNumber(StructuredFineData(pdf_path, text, field_mapping)))

(***************************************************************************)
(* RegexParsingStrategy                                                    *)
(***************************************************************************)
RegexConvertValue(key, value) ==
    IF key \in DateKeys THEN parse_date(value)
    ELSE IF key = "amount" THEN AmountToFloat(value)
    ELSE Str(value)

\* number of consecutive whitespace characters of text from index i on
RECURSIVE SpaceRun(_, _)
SpaceRun(text, i) ==
    IF i <= Len(text) /\ IsSpace(text[i]) THEN 1 + SpaceRun(text, i + 1) ELSE 0

\* re.escape(pdf_field) under re.IGNORECASE at index p
LabelMatchesAt(text, pdf_field, p) ==
    /\ p + Len(pdf_field) - 1 <= Len(text)
    /\ \A k \in 1..Len(pdf_field) : Lower(text[p + k - 1]) = Lower(pdf_field[k])

\* The ways  \s*[:\-]?\s*([^\n]+)  matches from index q: <<a, c, b>> with a
\* whitespace characters, c separators (0 or 1), b whitespace characters, and
\* then a character that is not a newline.
TailMatches(text, q) ==
    {m \in (0..SpaceRun(text, q)) \X {0, 1} \X (0..Len(text)) :
        /\ m[2] = 1 => (q + m[1] <= Len(text) /\ text[q + m[1]] \in {":", "-"})
        /\ m[3] <= SpaceRun(text, q + m[1] + m[2])
        /\ q + m[1] + m[2] + m[3] <= Len(text)
        /\ text[q + m[1] + m[2] + m[3]] # "\n"}

\* the backtracking matcher prefers the longer first run, then the separator,
\* then the longer second run
Preferred(m1, m2) ==
    \/ m1[1] > m2[1]
    \/ m1[1] = m2[1] /\ m1[2] > m2[2]
    \/ m1[1] = m2[1] /\ m1[2] = m2[2] /\ m1[3] >= m2[3]

\* end (exclusive) of the run of non-newline characters that starts at r
RECURSIVE LineEnd(_, _)
LineEnd(text, r) ==
    IF r <= Len(text) /\ text[r] # "\n" THEN LineEnd(text, r + 1) ELSE r

\* re.search(pattern, text, re.IGNORECASE | re.MULTILINE): the leftmost index
\* where the pattern matches, and group(1) of the match found there
RegexSearch(text, pdf_field) ==
    LET starts == {p \in 1..(Len(text) + 1) :
                      /\ LabelMatchesAt(text, pdf_field, p)
                      /\ TailMatches(text, p + Len(pdf_field)) # {}}
    IN  IF starts = {} THEN [match |-> FALSE, group |-> <<>>]
        ELSE LET p  == SetMin(starts)
                 q  == p + Len(pdf_field)
                 ms == TailMatches(text, q)
                 m  == CHOOSE x \in ms : \A y \in ms : Preferred(x, y)
                 r  == q + m[1] + m[2] + m[3]
             IN  [match |-> TRUE, group |-> SubSeq(text, r, LineEnd(text, r) - 1)]

\* the loop over field_mapping.items()
RECURSIVE RegexScan(_, _, _)
RegexScan(text, field_mapping, fine_data) ==
    IF field_mapping = <<>> THEN fine_data
    ELSE LET pdf_field     == Head(field_mapping)[1]
             canonical_key == Head(field_mapping)[2]
             found         == RegexSearch(text, pdf_field)
             value         == Strip(found.group)
         IN  IF found.match /\ value # <<>>
             THEN RegexScan(text, Tail(field_mapping),
                            Put(fine_data, canonical_key,
                                RegexConvertValue(canonical_key, value)))
             ELSE RegexScan(text, Tail(field_mapping), fine_data)

RegexFineData(pdf_path, text, field_mapping) ==
    RegexScan(text, field_mapping, InitFineData(pdf_path))

RegexParse(pdf_path, text, field_mapping) ==
    ExceptReturnNone(ReturnIfFineNumber(RegexFineData(pdf_path, text, field_mapping)))

(***************************************************************************)
(* TableParsingStrategy.  The document as fitz delivers it:                *)
(*   io    "ok", or "fail" when fitz.open(pdf_path) raises                 *)
(*   text  the text of all pages, concatenated                             *)
(*   pages one entry per page: err (page.find_tables() raises) and tables; *)
(*         a table has err (table.extract() raises) and rows; a row is a   *)
(*         list of cells; a cell is its text, <<>> for None and for ""     *)
(*         (line 290-291 treat the two alike)                              *)
(***************************************************************************)
TableConvertValue(key, value) ==
    IF key \in DateKeys THEN parse_date(value)
    ELSE IF key = "amount" THEN AmountToFloat(value)
    ELSE Str(value)

\* "pdf_field.lower() in field_name.lower() or field_name.lower() in pdf_field.lower()"
TableLabelMatches(pdf_field, field_name) ==
    \/ Contains(LowerStr(field_name), LowerStr(pdf_field))
    \/ Contains(LowerStr(pdf_field), LowerStr(field_name))

\* "if canonical_key and field_value: data[canonical_key] = self._convert_value(...)":
\* i is the index of the matching mapping entry, 0 when no label matches
SetField(data, field_mapping, i, field_value) ==
    IF i # 0 /\ field_value # <<>>
    THEN Put(data, field_mapping[i][2],
             TableConvertValue(field_mapping[i][2], field_value))
    ELSE data

\* one row of _extract_table_data
ExtractRow(row, field_mapping, data) ==
    IF Len(row) >= 2
    THEN SetField(data, field_mapping,
                  FirstEntry({k \in 1..Len(field_mapping) :
                                 TableLabelMatches(field_mapping[k][1], Strip(row[1]))}),
                  Strip(row[2]))
    ELSE data

RECURSIVE ExtractRows(_, _, _)
ExtractRows(rows, field_mapping, data) ==
    IF rows = <<>> THEN data
    ELSE ExtractRows(Tail(rows), field_mapping, ExtractRow(Head(rows), field_mapping, data))

\* _extract_table_data: an exception of table.extract() is caught, data stays {}
ExtractTableData(table, field_mapping) ==
    IF table.err THEN EmptyDict ELSE ExtractRows(table.rows, field_mapping, EmptyDict)

\* "if table_data: fine_data.update(table_data)"
UpdateIfData(fine_data, table_data) ==
    IF table_data # EmptyDict THEN Update(fine_data, table_data) ELSE fine_data

\* "for table in tables: ..."
RECURSIVE UpdateFromTables(_, _, _)
UpdateFromTables(tables, field_mapping, fine_data) ==
    IF tables = <<>> THEN fine_data
    ELSE UpdateFromTables(Tail(tables), field_mapping,
                          UpdateIfData(fine_data,
                                       ExtractTableData(Head(tables), field_mapping)))

\* the loop over the pages: found is the early "return fine_data"
RECURSIVE TablePages(_, _, _)
RECURSIVE AfterPageTables(_, _, _)
\* "if fine_data.get('fine_number'): return fine_data", else the next page
AfterPageTables(pages, field_mapping, updated) ==
    IF Truthy(Get(updated, "fine_number"))
    THEN [found |-> TRUE, fine_data |-> updated]
    ELSE TablePages(Tail(pages), field_mapping, updated)

TablePages(pages, field_mapping, fine_data) ==
    IF pages = <<>> THEN [found |-> FALSE, fine_data |-> fine_data]
    ELSE IF Head(pages).err \/ Head(pages).tables = <<>>
         THEN TablePages(Tail(pages), field_mapping, fine_data)
         ELSE AfterPageTables(pages, field_mapping,
                              UpdateFromTables(Head(pages).tables, field_mapping, fine_data))

TextTableSeparators == <<":", "|", "\t">>

\* "parts = line.split(separator, 1)" at the separator's index at, and the
\* label lookup on the name before it
TextTablePair(line, at, field_mapping, fine_data) ==
    IF at = 0 THEN fine_data
    ELSE SetField(fine_data, field_mapping,
                  FirstEntry({k \in 1..Len(field_mapping) :
                                 Contains(LowerStr(Strip(SubSeq(line, 1, at - 1))),
                                          LowerStr(field_mapping[k][1]))}),
                  Strip(SubSeq(line, at + 1, Len(line))))

\* one separator on one line of _parse_text_table
TextTableSeparator(line, separator, field_mapping, fine_data) ==
    TextTablePair(line, IndexOf(line, separator), field_mapping, fine_data)

RECURSIVE TextTableLine(_, _, _, _)
TextTableLine(line, separators, field_mapping, fine_data) ==
    IF separators = <<>> THEN fine_data
    ELSE TextTableLine(line, Tail(separators), field_mapping,
                       TextTableSeparator(line, Head(separators), field_mapping, fine_data))

RECURSIVE TextTableLines(_, _, _)
TextTableLines(lines, field_mapping, fine_data) ==
    IF lines = <<>> THEN fine_data
    ELSE TextTableLines(Tail(lines), field_mapping,
                        TextTableLine(Head(lines), TextTableSeparators, field_mapping,
                                      fine_data))

ParseTextTable(text, field_mapping, fine_data) ==
    TextTableLines(Split(text, "\n"), field_mapping, fine_data)

\* "If no tables found, try to parse text as table-like structure"
TextFallback(paged, text, field_mapping) ==
    IF paged.found THEN paged.fine_data
    ELSE ParseTextTable(text, field_mapping, paged.fine_data)

\* fine_data as it stands when TableParsingStrategy.parse decides its result
TableFineData(pdf_path, text, field_mapping, doc) ==
    TextFallback(TablePages(doc.pages, field_mapping, InitFineData(pdf_path)),
                 text, field_mapping)

\* the body of the try block: fitz.open raises when the document cannot be read
TableBody(pdf_path, text, field_mapping, doc) ==
    IF doc.io # "ok" THEN Raise
    ELSE ReturnIfFineNumber(TableFineData(pdf_path, text, field_mapping, doc))

TableParse(pdf_path, text, field_mapping, doc) ==
    ExceptReturnNone(TableBody(pdf_path, text, field_mapping, doc))

(***************************************************************************)
(* FieldMappingConfig.get_mapping and MultiStrategyParser                  *)
(***************************************************************************)
\* A dict with string keys is the list of its <<key, value>> items in
\* insertion order.
HasKey(items, k) == \E i \in 1..Len(items) : items[i][1] = k

Lookup(items, k) == items[CHOOSE i \in 1..Len(items) : items[i][1] = k][2]

\* "items[k] = v": the value of a present key is replaced in place, a new key
\* goes to the end
SetItem(items, k, v) ==
    IF HasKey(items, k)
    THEN [i \in 1..Len(items) |-> IF items[i][1] = k THEN <<k, v>> ELSE items[i]]
    ELSE Append(items, <<k, v>>)

\* self.mappings is whatever json.load returned: a dict from jurisdiction
\* names to mappings, or another JSON value, here the empty array.  A mapping
\* is the list of its <<label, canonical field>> items.
JsonDict(items) == [type |-> "dict", items |-> items]

JsonList == [type |-> "list", items |-> <<>>]

\* "jurisdiction in self.mappings"
Loaded(mappings, jurisdiction) == HasKey(mappings.items, jurisdiction)

\* FieldMappingConfig.get_mapping(jurisdiction): the mapping it returns
GetMapping(mappings, jurisdiction) ==
    IF Loaded(mappings, jurisdiction) THEN Lookup(mappings.items, jurisdiction)
    ELSE IF Loaded(mappings, "brazil") THEN Lookup(mappings.items, "brazil")
    ELSE <<>>

\* "logger.warning(f"Jurisdiction '{jurisdiction}' not found, using 'brazil'")"
GetMappingWarns(mappings, jurisdiction) == ~Loaded(mappings, jurisdiction)

\* "self.mappings.get(jurisdiction, {})" raises AttributeError on a list
GetMappingRaises(mappings, jurisdiction) == mappings.type # "dict"

\* Faulty variant of DefaultStrategies: Regex is tried before Structured
RegexFirstStrategies == <<"Regex", "Structured", "Table">>

\* MultiStrategyParser.__init__: the default strategies, in order
DefaultStrategies == <<"Structured", "Regex", "Table">>

RunStrategy(strategy, pdf_path, text, field_mapping, doc) ==
    CASE strategy = "Structured" -> StructuredParse(pdf_path, text, field_mapping)
      [] strategy = "Regex"      -> RegexParse(pdf_path, text, field_mapping)
      [] strategy = "Table"      -> TableParse(pdf_path, text, field_mapping, doc)

\* "if result and result.get('fine_number')"
Accepts(result) ==
    result.some /\ result.rec # EmptyDict /\ Truthy(Get(result.rec, "fine_number"))

\* the loop over self.strategies; invoked lists the strategies called so far
RECURSIVE TryStrategies(_, _, _, _, _, _)
RECURSIVE AfterStrategy(_, _, _, _, _, _, _)
\* what the loop does with one strategy's result
AfterStrategy(strategies, pdf_path, text, field_mapping, doc, invoked, result) ==
    IF result.raised THEN [result |-> Raise, invoked |-> invoked]
    ELSE IF Accepts(result) THEN [result |-> result, invoked |-> invoked]
    ELSE TryStrategies(Tail(strategies), pdf_path, text, field_mapping, doc, invoked)

TryStrategies(strategies, pdf_path, text, field_mapping, doc, invoked) ==
    IF strategies = <<>> THEN [result |-> ReturnNone, invoked |-> invoked]
    ELSE AfterStrategy(strategies, pdf_path, text, field_mapping, doc,
                       Append(invoked, Head(strategies)),
                       RunStrategy(Head(strategies), pdf_path, text, field_mapping, doc))

\* Faulty variant of NoExtractableText: "if not text", without the strip
OnlyEmptyText(text) == text = <<>>

\* "if not text.strip(): ... return None"
NoExtractableText(text) == Strip(text) = <<>>

\* "except Exception as e: logger.error(...); return None" around fitz.open
\* and the reading of the pages' text
OpenFails == [result |-> ReturnNone, invoked |-> <<>>]

\* MultiStrategyParser.parse; get_mapping is called outside its try block
MultiStrategyParse(pdf_path, jurisdiction, mappings, doc) ==
    LET field_mapping == GetMapping(mappings, jurisdiction)
    IN  IF GetMappingRaises(mappings, jurisdiction)
        THEN [result |-> Raise, invoked |-> <<>>]
        ELSE IF doc.io # "ok" THEN OpenFails
        ELSE IF NoExtractableText(doc.text) THEN [result |-> ReturnNone, invoked |-> <<>>]
        ELSE TryStrategies(DefaultStrategies, pdf_path, doc.text, field_mapping, doc, <<>>)

(***************************************************************************)
(* FineDataValidator.  v is the validator while validate runs: its errors  *)
(* and warnings lists, and raised once an exception has left a check (the  *)
(* checks after it do not run).  A message is <<kind, field>>.             *)
(***************************************************************************)
MinFineNumberLength == 5

HighAmount == 100000

LookBackYears == 10

CpfLength == 11

CnpjLength == 14

MaxPlausibleSpeed == 300

LowFineAmount == 50

HighFineAmount == 10000

AddError(v, kind, field) == [v EXCEPT !.errors = Append(@, <<kind, field>>)]

AddWarning(v, kind, field) == [v EXCEPT !.warnings = Append(@, <<kind, field>>)]

Raises(v) == [v EXCEPT !.raised = TRUE]

IsInstanceDate(x) == x.t \in {"date", "datetime"}

\* a < b raises TypeError unless both are numbers, both dates or both datetimes
Comparable(a, b) ==
    \/ a.t = "num" /\ b.t = "num"
    \/ a.t = b.t /\ a.t \in {"date", "datetime"}

Less(a, b) == IF a.t = "num" THEN NumLess(a, b) ELSE a.n < b.n

RequiredFields == <<"fine_number", "license_plate", "violation_date">>

RECURSIVE RequiredLoop(_, _, _)
RequiredLoop(fields, data, v) ==
    IF fields = <<>> THEN v
    ELSE RequiredLoop(Tail(fields), data,
                      IF ~Truthy(Get(data, Head(fields)))
                      THEN AddError(v, "required", Head(fields))
                      ELSE v)

\* Faulty variant of ValidateRequiredFields: the check is left out
NoRequiredCheck(data, v) == v

ValidateRequiredFields(data, v) == RequiredLoop(RequiredFields, data, v)

\* s with every character of the set chars removed (chained str.replace(c, ''))
RECURSIVE Without(_, _)
Without(s, chars) ==
    IF s = <<>> THEN <<>>
    ELSE IF Head(s) \in chars THEN Without(Tail(s), chars)
         ELSE <<Head(s)>> \o Without(Tail(s), chars)

HasDigit(s) == \E i \in 1..Len(s) : IsDigit(s[i])

ValidateFineNumber(data, v) ==
    LET fine_number == Get(data, "fine_number")
        cleaned     == Without(fine_number.s, {"-", ".", " "})
        short       == IF Len(cleaned) < MinFineNumberLength
                       THEN AddWarning(v, "too_short", "fine_number") ELSE v
    IN  IF ~Truthy(fine_number) THEN v
        ELSE IF fine_number.t # "str" THEN AddError(v, "not_a_string", "fine_number")
        ELSE IF ~HasDigit(cleaned) THEN AddWarning(short, "no_digits", "fine_number")
        ELSE short

\* '$' of re.match(r'^...$', s) after a pattern of n characters: the end of
\* s, or a newline that ends s
MatchesToEnd(s, n) == Len(s) = n \/ (Len(s) = n + 1 /\ s[n + 1] = "\n")

\* ^[A-Z]{3}\d{4}$
OldPlateFormat(cleaned) ==
    /\ MatchesToEnd(cleaned, 7)
    /\ \A i \in 1..3 : IsUpper(cleaned[i])
    /\ \A i \in 4..7 : IsDigit(cleaned[i])

\* ^[A-Z]{3}\d[A-Z]\d{2}$
NewPlateFormat(cleaned) ==
    /\ MatchesToEnd(cleaned, 7)
    /\ \A i \in 1..3 : IsUpper(cleaned[i])
    /\ IsDigit(cleaned[4]) /\ IsUpper(cleaned[5])
    /\ IsDigit(cleaned[6]) /\ IsDigit(cleaned[7])

\* license_plate.replace('-', '').replace(' ', '').upper()
CleanedPlate(plate) == UpperStr(Without(plate, {"-", " "}))

\* Faulty variant of ValidateLicensePlate: a malformed plate is an error
PlateFormatIsError(data, v) ==
    IF Get(data, "license_plate").t # "str" \/ Get(data, "license_plate").s = <<>> THEN v
    ELSE IF ~(\/ OldPlateFormat(CleanedPlate(Get(data, "license_plate").s))
              \/ NewPlateFormat(CleanedPlate(Get(data, "license_plate").s)))
         THEN AddError(v, "format", "license_plate")
         ELSE v

ValidateLicensePlate(data, v) ==
    LET license_plate == Get(data, "license_plate")
        cleaned       == CleanedPlate(license_plate.s)
    IN  IF ~Truthy(license_plate) THEN v
        ELSE IF license_plate.t # "str" THEN AddError(v, "not_a_string", "license_plate")
        ELSE IF ~(OldPlateFormat(cleaned) \/ NewPlateFormat(cleaned))
             THEN AddWarning(v, "format", "license_plate")
             ELSE v

ValidateAmount(data, v) ==
    LET given   == Get(data, "amount")
        parsed  == IF given.t = "str" THEN ParseFloat(given.s)
                   ELSE [ok |-> FALSE, v |-> None]
        amount  == IF given.t = "num" THEN given ELSE parsed.v
        negative == IF NumLess(amount, IntV(0))
                    THEN AddError(v, "negative", "amount") ELSE v
    IN  IF given.t = "none" THEN v
        ELSE IF given.t # "num" /\ ~parsed.ok THEN AddError(v, "not_numeric", "amount")
        ELSE IF amount.n = 0 THEN AddWarning(negative, "zero", "amount")
        ELSE IF NumLess(IntV(HighAmount), amount)
             THEN AddWarning(negative, "very_high", "amount")
             ELSE negative

\* the date_fields dict of _validate_dates, in its order
DateFields == <<"notification_date", "defense_due_date", "driver_id_due_date",
                "violation_date">>

\* date(today.year - 10, 1, 1)
OldestDate(today) == DateV((today.n \div 10000) - LookBackYears, 1, 1)

\* one field of _validate_dates
ValidateDateField(field, data, today, v) ==
    LET date_value == Get(data, field)
        future == IF field = "violation_date" /\ Less(today, date_value)
                  THEN AddError(v, "in_future", field) ELSE v
    IN  IF ~Truthy(date_value) THEN v
        ELSE IF ~IsInstanceDate(date_value) THEN AddError(v, "not_a_date", field)
        ELSE IF ~Comparable(date_value, today) THEN Raises(v)
        ELSE IF Less(date_value, OldestDate(today))
             THEN AddWarning(future, "very_old", field)
             ELSE future

RECURSIVE DatesLoop(_, _, _, _)
DatesLoop(fields, data, today, v) ==
    IF fields = <<>> \/ v.raised THEN v
    ELSE DatesLoop(Tail(fields), data, today,
                   ValidateDateField(Head(fields), data, today, v))

ValidateDates(data, today, v) == DatesLoop(DateFields, data, today, v)

\* re.match(r'^\d+$', s): '$' also matches before a newline that ends s
DigitsOnly(s) ==
    LET core == IF s # <<>> /\ s[Len(s)] = "\n" THEN SubSeq(s, 1, Len(s) - 1) ELSE s
    IN  core # <<>> /\ AllDigits(core)

ValidateDocument(data, v) ==
    LET document == Get(data, "owner_document")
        cleaned  == Without(document.s, {".", "-", "/", " "})
    IN  IF ~Truthy(document) \/ document.t # "str" THEN v
        ELSE IF ~DigitsOnly(cleaned) THEN AddWarning(v, "format", "owner_document")
        ELSE IF Len(cleaned) \notin {CpfLength, CnpjLength}
             THEN AddWarning(v, "length", "owner_document")
             ELSE v

\* int(re.search(r'(\d+)', s).group(1)): the first run of digits of s
FirstDigitRun(s) ==
    LET i == SetMin({k \in 1..Len(s) : IsDigit(s[k])})
        j == SetMin({k \in i..(Len(s) + 1) : k > Len(s) \/ ~IsDigit(s[k])})
    IN  IntV(DigitsVal(SubSeq(s, i, j - 1)))

SpeedFields == <<"measured_speed", "considered_speed", "speed_limit">>

\* the speeds list: the numbers read from the three fields
RECURSIVE SpeedsOf(_, _)
SpeedsOf(fields, data) ==
    IF fields = <<>> THEN <<>>
    ELSE LET value == Get(data, Head(fields))
         IN  (IF Truthy(value) /\ value.t = "str" /\ HasDigit(value.s)
              THEN <<FirstDigitRun(value.s)>>
              ELSE IF Truthy(value) /\ value.t = "num" THEN <<value>>
              ELSE <<>>) \o SpeedsOf(Tail(fields), data)

\* "int(re.search(r'(\d+)', str(x)).group(1)) if isinstance(x, str) else x":
\* re.search gives None for a string without digits, and .group raises
SpeedValRaises(x) == x.t = "str" /\ ~HasDigit(x.s)

SpeedVal(x) == IF x.t = "str" THEN FirstDigitRun(x.s) ELSE x

ValidateSpeedData(data, v) ==
    LET measured   == Get(data, "measured_speed")
        considered == Get(data, "considered_speed")
        limit      == Get(data, "speed_limit")
        speeds     == SpeedsOf(SpeedFields, data)
        high == IF \E i \in 1..Len(speeds) : NumLess(IntV(MaxPlausibleSpeed), speeds[i])
                THEN AddWarning(v, "very_high", "speed") ELSE v
    IN  IF ~(Truthy(measured) \/ Truthy(considered) \/ Truthy(limit)) THEN v
        ELSE IF Len(speeds) < 2 THEN v
        ELSE IF ~(Truthy(measured) /\ Truthy(considered)) THEN high
        ELSE IF SpeedValRaises(measured) \/ SpeedValRaises(considered) THEN Raises(high)
        ELSE IF ~Comparable(SpeedVal(measured), SpeedVal(considered)) THEN Raises(high)
        ELSE IF Less(SpeedVal(measured), SpeedVal(considered))
             THEN AddWarning(high, "measured_below_considered", "speed")
             ELSE high

ValidateDateConsistency(data, v) ==
    LET violation_date    == Get(data, "violation_date")
        notification_date == Get(data, "notification_date")
        defense_due_date  == Get(data, "defense_due_date")
        both  == IsInstanceDate(violation_date) /\ IsInstanceDate(notification_date)
        first == IF both /\ Comparable(notification_date, violation_date)
                      /\ Less(notification_date, violation_date)
                 THEN AddWarning(v, "before_violation", "notification_date") ELSE v
        dboth == Truthy(defense_due_date) /\ IsInstanceDate(notification_date)
                 /\ IsInstanceDate(defense_due_date)
    IN  IF ~(Truthy(violation_date) /\ Truthy(notification_date)) THEN v
        ELSE IF both /\ ~Comparable(notification_date, violation_date) THEN Raises(v)
        ELSE IF dboth /\ ~Comparable(defense_due_date, notification_date) THEN Raises(first)
        ELSE IF dboth /\ Less(defense_due_date, notification_date)
             THEN AddWarning(first, "before_notification", "defense_due_date")
             ELSE first

ValidateAmountRange(data, v) ==
    LET amount == Get(data, "amount")
    IN  IF ~Truthy(amount) \/ amount.t # "num" THEN v
        ELSE IF NumLess(amount, IntV(LowFineAmount)) THEN AddWarning(v, "low", "amount")
        ELSE IF NumLess(IntV(HighFineAmount), amount) THEN AddWarning(v, "high", "amount")
        ELSE v

NewValidator == [raised |-> FALSE, errors |-> <<>>, warnings |-> <<>>]

\* the checks of FineDataValidator.validate, in the order it calls them
Checks ==
    <<"required_fields", "fine_number", "license_plate", "amount", "dates",
      "document", "speed_data", "date_consistency", "amount_range">>

RunCheck(check, data, today, v) ==
    CASE check = "required_fields"   -> ValidateRequiredFields(data, v)
      [] check = "fine_number"       -> ValidateFineNumber(data, v)
      [] check = "license_plate"     -> ValidateLicensePlate(data, v)
      [] check = "amount"            -> ValidateAmount(data, v)
      [] check = "dates"             -> ValidateDates(data, today, v)
      [] check = "document"          -> ValidateDocument(data, v)
      [] check = "speed_data"        -> ValidateSpeedData(data, v)
      [] check = "date_consistency"  -> ValidateDateConsistency(data, v)
      [] check = "amount_range"      -> ValidateAmountRange(data, v)

\* a check runs only while no exception has left validate
RECURSIVE RunFrom(_, _, _, _)
RunFrom(checks, data, today, v) ==
    IF checks = <<>> \/ v.raised THEN v
    ELSE RunFrom(Tail(checks), data, today, RunCheck(Head(checks), data, today, v))

\* FineDataValidator.validate up to "is_valid = len(self.errors) == 0"
RunChecks(data, today) == RunFrom(Checks, data, today, NewValidator)

\* What a validation call gives its caller: raised, or the tuple
\* (is_valid, errors, warnings)
Returns(is_valid, errors, warnings) ==
    [raised |-> FALSE, is_valid |-> is_valid, errors |-> errors, warnings |-> warnings]

ValidationRaised ==
    [raised |-> TRUE, is_valid |-> FALSE, errors |-> <<>>, warnings |-> <<>>]

\* "is_valid = len(self.errors) == 0; return is_valid, self.errors, self.warnings"
ValidateReturn(v) ==
    IF v.raised THEN ValidationRaised
    ELSE Returns(v.errors = <<>>, v.errors, v.warnings)

Validate(data, today) == ValidateReturn(RunChecks(data, today))

\* "if strict and warnings: errors.extend(warnings); warnings = []; ..."
Escalate(r, strict) ==
    IF r.raised THEN r
    ELSE IF strict /\ r.warnings # <<>>
         THEN Returns(r.errors \o r.warnings = <<>>, r.errors \o r.warnings, <<>>)
         ELSE r

\* validate_fine_data(data, strict)
ValidateFineData(data, strict, today) == Escalate(Validate(data, today), strict)

\* the validator's lists after validate_fine_data: errors.extend also extends
\* the validator's errors list, which is the same object
ValidatorAfter(v, strict) ==
    IF strict /\ ~v.raised /\ v.warnings # <<>>
    THEN [v EXCEPT !.errors = v.errors \o v.warnings]
    ELSE v

(***************************************************************************)
(* The mapping file.  A file is the list of the characters of its text;    *)
(* the name of a jurisdiction or of a canonical field is written as one    *)
(* token, as the names of the model hold no character that JSON escapes.   *)
(* The values of the JSON texts of the model are objects, strings and the  *)
(* empty array.                                                            *)
(***************************************************************************)
NoFile == [exists |-> FALSE, text |-> <<>>]

FileOf(text) == [exists |-> TRUE, text |-> text]

\* Faulty variant of Escape: the characters are written as they are
NoEscape(chars) == chars

\* json.dump(..., ensure_ascii=False) of the characters of a string
RECURSIVE Escape(_)
Escape(chars) ==
    IF chars = <<>> THEN <<>>
    ELSE (CASE Head(chars) = "\"" -> <<"\\", "\"">>
            [] Head(chars) = "\\" -> <<"\\", "\\">>
            [] Head(chars) = "\n" -> <<"\\", "n">>
            [] Head(chars) = "\t" -> <<"\\", "t">>
            [] Head(chars) = "\r" -> <<"\\", "r">>
            [] OTHER -> <<Head(chars)>>) \o Escape(Tail(chars))

EncodeName(name) == <<"\"", name, "\"">>

EncodeLabel(label) == <<"\"">> \o Escape(label) \o <<"\"">>

\* the newline and indentation json.dump(..., indent=2) writes at a level
NewlineIndent(level) == <<"\n">> \o [i \in 1..(2 * level) |-> " "]

\* the items of a mapping from the i-th on
RECURSIVE EncodeMappingItems(_, _)
EncodeMappingItems(mapping, i) ==
    IF i > Len(mapping) THEN <<>>
    ELSE (IF i > 1 THEN <<",">> ELSE <<>>) \o NewlineIndent(2)
         \o EncodeLabel(mapping[i][1]) \o <<":", " ">> \o EncodeName(mapping[i][2])
         \o EncodeMappingItems(mapping, i + 1)

EncodeMapping(mapping) ==
    IF mapping = <<>> THEN <<"{", "}">>
    ELSE <<"{">> \o EncodeMappingItems(mapping, 1) \o NewlineIndent(1) \o <<"}">>

RECURSIVE EncodeJurisdictions(_, _)
EncodeJurisdictions(items, i) ==
    IF i > Len(items) THEN <<>>
    ELSE (IF i > 1 THEN <<",">> ELSE <<>>) \o NewlineIndent(1)
         \o EncodeName(items[i][1]) \o <<":", " ">> \o EncodeMapping(items[i][2])
         \o EncodeJurisdictions(items, i + 1)

\* json.dump(self.mappings, f, indent=2, ensure_ascii=False): the text written
JsonDump(mappings) ==
    IF mappings.type = "list" THEN <<"[", "]">>
    ELSE IF mappings.items = <<>> THEN <<"{", "}">>
    ELSE <<"{">> \o EncodeJurisdictions(mappings.items, 1) \o NewlineIndent(0) \o <<"}">>

\* What a step of json.load gives: ok, the value read and the position after it
Parsed(value, next) == [ok |-> TRUE, value |-> value, next |-> next]

ParseError == [ok |-> FALSE, value |-> <<>>, next |-> 0]

IsAt(text, i, c) == i <= Len(text) /\ text[i] = c

RECURSIVE SkipWhitespace(_, _)
SkipWhitespace(text, i) ==
    IF i <= Len(text) /\ text[i] \in {" ", "\n", "\t", "\r"}
    THEN SkipWhitespace(text, i + 1)
    ELSE i

\* the character an escape sequence \c stands for; <<>> when there is none
\* (the model's texts hold no \b, \f or \u sequence)
Unescape(c) ==
    CASE c = "\"" -> <<"\"">>
      [] c = "\\" -> <<"\\">>
      [] c = "/"  -> <<"/">>
      [] c = "n"  -> <<"\n">>
      [] c = "t"  -> <<"\t">>
      [] c = "r"  -> <<"\r">>
      [] OTHER    -> <<>>

\* the characters of a string from position i, after its opening quote; a
\* control character inside a string is an error
RECURSIVE StringBody(_, _, _)
StringBody(text, i, chars) ==
    IF i > Len(text) THEN ParseError
    ELSE IF text[i] = "\"" THEN Parsed(chars, i + 1)
    ELSE IF text[i] \in {"\n", "\t", "\r"} THEN ParseError
    ELSE IF text[i] = "\\"
         THEN IF i + 1 > Len(text) \/ Unescape(text[i + 1]) = <<>> THEN ParseError
              ELSE StringBody(text, i + 2, chars \o Unescape(text[i + 1]))
    ELSE StringBody(text, i + 1, Append(chars, text[i]))

ParseString(text, i) ==
    IF IsAt(text, i, "\"") THEN StringBody(text, i + 1, <<>>) ELSE ParseError

\* the name a string of one token stands for
NameOf(chars) == IF chars = <<>> THEN "" ELSE chars[1]

\* the members of a mapping object from position i (at a key) on
RECURSIVE MappingMembers(_, _, _)
MappingSeparator(text, i, items) ==
    IF IsAt(text, i, "}") THEN Parsed(items, i + 1)
    ELSE IF IsAt(text, i, ",") THEN MappingMembers(text, SkipWhitespace(text, i + 1), items)
    ELSE ParseError

\* after a member's value
MappingNext(text, key, value, items) ==
    IF ~key.ok \/ ~value.ok THEN ParseError
    ELSE MappingSeparator(text, SkipWhitespace(text, value.next),
                          SetItem(items, key.value, NameOf(value.value)))

\* after a member's key
MappingValue(text, key, colon, items) ==
    IF ~IsAt(text, colon, ":") THEN ParseError
    ELSE MappingNext(text, key, ParseString(text, SkipWhitespace(text, colon + 1)), items)

MappingKey(text, key, items) ==
    IF ~key.ok THEN ParseError
    ELSE MappingValue(text, key, SkipWhitespace(text, key.next), items)

MappingMembers(text, i, items) == MappingKey(text, ParseString(text, i), items)

\* a jurisdiction's value: an object of label/field members
MappingAfterBrace(text, i) ==
    IF IsAt(text, i, "}") THEN Parsed(<<>>, i + 1)
    ELSE MappingMembers(text, i, <<>>)

ParseMapping(text, i) ==
    IF IsAt(text, i, "{") THEN MappingAfterBrace(text, SkipWhitespace(text, i + 1))
    ELSE ParseError

\* the members of the top-level object from position i (at a key) on
RECURSIVE JurisdictionMembers(_, _, _)
JurisdictionSeparator(text, i, items) ==
    IF IsAt(text, i, "}") THEN Parsed(JsonDict(items), i + 1)
    ELSE IF IsAt(text, i, ",")
         THEN JurisdictionMembers(text, SkipWhitespace(text, i + 1), items)
    ELSE ParseError

JurisdictionNext(text, key, value, items) ==
    IF ~value.ok THEN ParseError
    ELSE JurisdictionSeparator(text, SkipWhitespace(text, value.next),
                               SetItem(items, NameOf(key.value), value.value))

JurisdictionValue(text, key, colon, items) ==
    IF ~IsAt(text, colon, ":") THEN ParseError
    ELSE JurisdictionNext(text, key, ParseMapping(text, SkipWhitespace(text, colon + 1)), items)

JurisdictionKey(text, key, items) ==
    IF ~key.ok THEN ParseError
    ELSE JurisdictionValue(text, key, SkipWhitespace(text, key.next), items)

JurisdictionMembers(text, i, items) == JurisdictionKey(text, ParseString(text, i), items)

ObjectAfterBrace(text, i) ==
    IF IsAt(text, i, "}") THEN Parsed(JsonDict(<<>>), i + 1)
    ELSE JurisdictionMembers(text, i, <<>>)

ArrayAfterBracket(text, i) ==
    IF IsAt(text, i, "]") THEN Parsed(JsonList, i + 1) ELSE ParseError

ParseValue(text, i) ==
    IF IsAt(text, i, "{") THEN ObjectAfterBrace(text, SkipWhitespace(text, i + 1))
    ELSE IF IsAt(text, i, "[") THEN ArrayAfterBracket(text, SkipWhitespace(text, i + 1))
    ELSE ParseError

\* nothing but whitespace may follow the value ("Extra data")
WholeText(text, parsed) ==
    IF parsed.ok /\ SkipWhitespace(text, parsed.next) > Len(text) THEN parsed
    ELSE ParseError

\* json.load(f): ok is false for JSONDecodeError
JsonLoad(text) == WholeText(text, ParseValue(text, SkipWhitespace(text, 1)))

(***************************************************************************)
(* FieldMappingConfig                                                      *)
(***************************************************************************)
\* What load_config leaves and returns
Load(mappings, returned) == [mappings |-> mappings, returned |-> returned]

\* "self.mappings = json.load(f)", then the two log lines: the second calls
\* self.mappings.keys(), which a list does not have, and the exception is
\* caught by "except Exception: ... return False"
LoadParsed(mappings, parsed) ==
    IF ~parsed.ok THEN Load(mappings, FALSE)
    ELSE Load(parsed.value, parsed.value.type = "dict")

\* FieldMappingConfig.load_config()
LoadConfig(mappings, file) ==
    IF ~file.exists THEN Load(mappings, FALSE)
    ELSE LoadParsed(mappings, JsonLoad(file.text))

\* FieldMappingConfig.__init__: "self.mappings = {}", then load_config()
ConstructedFrom(file) == LoadConfig(JsonDict(<<>>), file).mappings

\* Faulty variant of SetJurisdictionReturns: every name is accepted
AnyNameAccepted(mappings, jurisdiction) == TRUE

\* FieldMappingConfig.set_jurisdiction(jurisdiction): what it returns
SetJurisdictionReturns(mappings, jurisdiction) == Loaded(mappings, jurisdiction)

\* FieldMappingConfig.add_mapping raises TypeError when self.mappings is a list
AddMappingRaises(mappings) == mappings.type # "dict"

\* "if jurisdiction not in self.mappings: self.mappings[jurisdiction] = {}"
WithJurisdiction(items, jurisdiction) ==
    IF HasKey(items, jurisdiction) THEN items ELSE Append(items, <<jurisdiction, <<>>>>)

\* Faulty variant of AddMappingItems: the field is stored under its own name
FieldAsLabel(items, jurisdiction, pdf_field, canonical_field) ==
    SetItem(items, jurisdiction, <<<<pdf_field, "label">>>>)

\* "self.mappings[jurisdiction][pdf_field] = canonical_field"
AddMappingItems(items, jurisdiction, pdf_field, canonical_field) ==
    SetItem(items, jurisdiction,
            SetItem(Lookup(items, jurisdiction), pdf_field, canonical_field))

\* FieldMappingConfig.add_mapping(jurisdiction, pdf_field, canonical_field)
AddMapping(mappings, jurisdiction, pdf_field, canonical_field) ==
    IF AddMappingRaises(mappings) THEN mappings
    ELSE JsonDict(AddMappingItems(WithJurisdiction(mappings.items, jurisdiction),
                                  jurisdiction, pdf_field, canonical_field))

\* the file after save_config was interrupted once it had written k characters
Interrupted(text, k) == FileOf(SubSeq(text, 1, k))

(***************************************************************************)
(* PDFParser.parse_pdf                                                     *)
(***************************************************************************)
\* "if validate: is_valid, errors, warnings = validate_fine_data(...)" up to
\* "return fine_data"; "except Exception as e: ... return None"
ValidationStep(fine_data, validate, strict_validation, today) ==
    IF validate /\ ValidateFineData(fine_data.rec, strict_validation, today).raised
    THEN ReturnNone
    ELSE fine_data

\* "if not fine_data: raise ValueError(...)" and "except ValueError",
\* "except Exception"
ExtractedStep(fine_data, validate, strict_validation, today) ==
    IF fine_data.raised THEN ReturnNone
    ELSE IF ~fine_data.some \/ fine_data.rec = EmptyDict THEN ReturnNone
    ELSE ValidationStep(fine_data, validate, strict_validation, today)

\* PDFParser.parse_pdf(pdf_path, validate) of a parser whose jurisdiction is
\* self_jurisdiction; os.path.exists fails for a missing document
ParsePdf(pdf_path, validate, self_jurisdiction, strict_validation, mappings, doc, today) ==
    IF doc.io = "missing" THEN ReturnNone
    ELSE ExtractedStep(MultiStrategyParse(pdf_path, self_jurisdiction, mappings, doc).result,
                       validate, strict_validation, today)

(***************************************************************************)
(* Bounded inputs                                                          *)
(***************************************************************************)
\* number of lines of the texts built from LinePool
MaxLines == 3

PdfPath == <<"f">>

LabelAIT == <<"A", "I", "T">>

LabelPlaca == <<"P", "L", "A", "C", "A">>

LabelValor == <<"V", "A", "L", "O", "R", " ", "D", "A", " ", "M", "U", "L", "T", "A">>

LabelData == <<"D", "A", "T", "A">>

\* the mapping store as loaded: jurisdiction -> label/field items in file order
BrazilMapping ==
    << <<LabelAIT, "fine_number">>, <<LabelPlaca, "license_plate">>,
       <<LabelValor, "amount">>, <<LabelData, "violation_date">> >>

LabelMedicao == <<"M", "E", "D", "I", "C", "A", "O", " ", "R", "E", "A", "L", "I", "Z", "A", "D", "A">>

LabelConsiderado == <<"V", "A", "L", "O", "R", " ", "C", "O", "N", "S", "I", "D", "E", "R", "A", "D", "O">>

LabelLimite == <<"L", "I", "M", "I", "T", "E", " ", "R", "E", "G", "U", "L", "A", "M", "E", "N", "T", "A", "D", "O">>

\* a jurisdiction whose forms carry the speed fields
RadarMapping ==
    << <<LabelAIT, "fine_number">>, <<LabelMedicao, "measured_speed">>,
       <<LabelConsiderado, "considered_speed">>, <<LabelLimite, "speed_limit">> >>

LabelNotificacao ==
    <<"D", "A", "T", "A", " ", "D", "A", " ", "N", "O", "T", "I", "F", "I", "C", "A", "C", "A", "O">>

\* two labels of FIELD_MAP, one a prefix of the other, in FIELD_MAP's order
\* (the longer label first) and in the other order
NoticeMapping ==
    << <<LabelAIT, "fine_number">>, <<LabelNotificacao, "notification_date">>,
       <<LabelData, "violation_date">> >>

NoticeMappingReordered ==
    << <<LabelAIT, "fine_number">>, <<LabelData, "violation_date">>,
       <<LabelNotificacao, "notification_date">> >>

\* the mapping of the specification's scenario: no identifier label
ScenarioMapping == << <<LabelPlaca, "license_plate">>, <<LabelValor, "amount">> >>

DefaultMappings ==
    JsonDict(<< <<"brazil", BrazilMapping>>, <<"scenario", ScenarioMapping>>,
                <<"radar", RadarMapping>>, <<"notice", NoticeMapping>>,
                <<"notice_reordered", NoticeMappingReordered>> >>)

Jurisdictions == {"brazil", "scenario", "elsewhere"}

LineAIT == LabelAIT

LineNumber == <<"A", "1", "2", "3", "4">>

LineInline == <<"A", "I", "T", ":", " ", "B", "7", "7">>

LinePlate == <<"X", "Y", "Z", "9", "Z", "8", "8">>

LineBlank == <<" ">>

LinePool == <<LineAIT, LineNumber, LineInline, LabelPlaca, LinePlate, LineBlank>>

TextsOfLength(k) ==
    {JoinLines([i \in 1..k |-> LinePool[f[i]]]) : f \in [1..k -> 1..Len(LinePool)]}

PoolTexts == UNION {TextsOfLength(k) : k \in 0..MaxLines}

(***************************************************************************)
(* Documents.  A document is what PyMuPDF gives for a path: io says        *)
(* whether fitz.open succeeds, text is the text of its pages, pages are    *)
(* the pages' tables (err: find_tables / extract raises).  The text of a   *)
(* cell is part of the page's text, so a document with blank text has no   *)
(* cell with text.                                                         *)
(***************************************************************************)
NoTables == << [err |-> FALSE, tables |-> <<>>] >>

IdentifierTable ==
    [err |-> FALSE,
     rows |-> << <<LabelAIT, <<"T", "5">>>>, <<LabelPlaca>>,
                 <<<<"P", "l", "a", "c", "a", " ">>, LinePlate>> >>]

PlateTable == [err |-> FALSE, rows |-> << <<LabelPlaca, LinePlate>> >>]

TablePagesSample == << [err |-> FALSE, tables |-> <<IdentifierTable>>] >>

BrokenPagesSample ==
    << [err |-> TRUE, tables |-> <<IdentifierTable>>],
       [err |-> FALSE,
        tables |-> << [err |-> TRUE, rows |-> IdentifierTable.rows], PlateTable >>] >>

PageSamples == {NoTables, TablePagesSample, BrokenPagesSample}

Readable(text, pages) == [io |-> "ok", text |-> text, pages |-> pages]

Unreadable(text, pages) == [io |-> "fail", text |-> text, pages |-> pages]

PoolDocs ==
    {Readable(t, p) : t \in PoolTexts, p \in PageSamples} \cup
    {Unreadable(t, p) : t \in TextsOfLength(1), p \in PageSamples}

AmountSamples ==
    {<<"R", "$", " ", "1", ".", "2", "3", "4", ",", "5", "6">>, <<"R", "$", " ", "2", "5", "0", ",", "0", "0">>, <<"a", "b", "c">>, <<"1", ".", "5">>, <<"R", "$">>, <<"1", "2", ",", "3", ",", "4">>}

DateSamples == {<<"0", "5", "/", "0", "1", "/", "2", "0", "2", "4">>, <<"3", "1", "/", "0", "2", "/", "2", "0", "2", "4">>}

FieldSamples ==
    {<<LabelValor, a>> : a \in AmountSamples} \cup {<<LabelData, d>> : d \in DateSamples}

\* the label on one line and its value on the next
StackedText(label, value) == JoinLines(<<LineAIT, LineNumber, label, value>>)

\* the label and its value on one line
InlineText(label, value) ==
    JoinLines(<<LineAIT \o <<":", " ">> \o LineNumber, label \o <<":", " ">> \o value>>)

\* the label and its value in two cells of a row
FieldTable(label, value) ==
    << [err |-> FALSE,
        tables |-> << [err |-> FALSE,
                       rows |-> << <<LineAIT, LineNumber>>, <<label, value>> >>] >>] >>

FieldDocs ==
    UNION {{Readable(StackedText(lv[1], lv[2]), NoTables),
            Readable(InlineText(lv[1], lv[2]), NoTables),
            Readable(StackedText(lv[1], lv[2]), FieldTable(lv[1], lv[2]))} :
           lv \in FieldSamples}

\* a form of the radar jurisdiction with the measured speed as printed
RadarText(measured) ==
    JoinLines(<<LineAIT, LineNumber, LabelMedicao, measured,
                LabelConsiderado, <<"7", "0", " ", "k", "m", "/", "h">>,
                LabelLimite, <<"6", "0", " ", "k", "m", "/", "h">>>>)

MeasuredSamples == {<<"N", "/", "A">>, <<"8", "0", " ", "k", "m", "/", "h">>}

RadarDocs == {Readable(RadarText(m), NoTables) : m \in MeasuredSamples}

\* a notice with the notification date stacked under its label
NoticeText ==
    JoinLines(<<LineAIT, LineNumber, LabelNotificacao,
                <<"0", "5", "/", "0", "1", "/", "2", "0", "2", "4">>>>)

NoticeDoc == Readable(NoticeText, NoTables)

\* a table whose first row has an empty label cell
UnlabelledTable ==
    [err |-> FALSE,
     rows |-> << <<<<>>, <<"T", "5">>>>, <<LabelPlaca, LinePlate>> >>]

UnlabelledDoc ==
    Readable(JoinLines(<<<<"T", "5">>, LabelPlaca \o <<" ">> \o LinePlate>>),
             << [err |-> FALSE, tables |-> <<UnlabelledTable>>] >>)

\* a path at which there is no file
MissingDoc == [io |-> "missing", text |-> <<>>, pages |-> NoTables]

ScenarioText ==<<"P", "L", "A", "C", "A", "\n", "X", "Y", "Z", "9", "Z", "8", "8", "\n", "V", "A", "L", "O", "R", " ", "D", "A", " ", "M", "U", "L", "T", "A", "\n", "R", "$", " ", "2", "5", "0", ",", "0", "0", "\n">>

ScenarioDoc == Readable(ScenarioText, NoTables)

EmptyDoc == Readable(<<>>, NoTables)

HasCellText(pages) ==
    \E i \in 1..Len(pages) : \E j \in 1..Len(pages[i].tables) :
        \E r \in 1..Len(pages[i].tables[j].rows) :
            \E c \in 1..Len(pages[i].tables[j].rows[r]) :
                Strip(pages[i].tables[j].rows[r][c]) # <<>>

\* the <<document, jurisdiction>> pairs the parsers are run on
DocInputs ==
    {dj \in (PoolDocs \X Jurisdictions) \cup (FieldDocs \X {"brazil"})
              \cup {<<ScenarioDoc, "scenario">>, <<MissingDoc, "brazil">>,
                    <<UnlabelledDoc, "brazil">>}
              \cup ({NoticeDoc} \X {"notice", "notice_reordered"})
              \cup (RadarDocs \X {"radar"}) :
        Strip(dj[1].text) = <<>> => ~HasCellText(dj[1].pages)}

(***************************************************************************)
(* Records given to validation                                             *)
(***************************************************************************)
\* the record of the specification's scenario: a plate and an amount, no
\* identifier
ScenarioRecord ==
    [InitFineData(PdfPath) EXCEPT !["license_plate"] = Str(LinePlate),
                                  !["amount"] = Num(250, 0)]

FineNumberSamples == {None, Str(<<>>), Str(<<"A", "1", "2", "3", "4", "5">>), Str(<<"A", "B", "1">>)}

OldPlate == <<"A", "B", "C", "1", "2", "3", "4">>

NewPlate == <<"A", "B", "C", "1", "D", "2", "3">>

ShortPlate == <<"A", "B", "1", "2", "3">>

DashedPlate == <<"a", "b", "c", "-", "1", "2", "3", "4">>

PlateSamples == {None, Str(OldPlate), Str(NewPlate), Str(ShortPlate), Str(DashedPlate)}

Todays == {DateV(2026, 11, 6)}

ViolationDateSamples ==
    {None, DateV(2024, 1, 5), DateV(2027, 1, 1), Str(<<"0", "5", "/", "0", "1", "/", "2", "0", "2", "4">>)}

RecordAmountSamples == {Num(0, 0), Num(250, 0), Num(0 - 5, 0)}

MeasuredSpeedSamples == {None, Str(<<"a", "b", "c">>), Str(<<"8", "0", " ", "k", "m", "/", "h">>)}

ConsideredSpeedSamples == {None, Str(<<"7", "0">>)}

SpeedLimitSamples == {None, Str(<<"6", "0">>)}

Records ==
    {[InitFineData(PdfPath) EXCEPT !["fine_number"] = fn,
                                   !["license_plate"] = lp,
                                   !["violation_date"] = vd,
                                   !["amount"] = am,
                                   !["measured_speed"] = ms,
                                   !["considered_speed"] = cs,
                                   !["speed_limit"] = sl] :
        fn \in FineNumberSamples, lp \in PlateSamples, vd \in ViolationDateSamples,
        am \in RecordAmountSamples, ms \in MeasuredSpeedSamples,
        cs \in ConsideredSpeedSamples, sl \in SpeedLimitSamples}

\* a record that every check passes; the dated and the speed records vary it
ValidRecord ==
    [InitFineData(PdfPath) EXCEPT !["fine_number"] = Str(<<"A", "1", "2", "3", "4", "5">>),
                                  !["license_plate"] = Str(OldPlate),
                                  !["violation_date"] = DateV(2024, 1, 5),
                                  !["amount"] = Num(250, 0)]

\* dates around the two ends of the look-back window of a day in Todays:
\* ten years before that day, and 1 January of the year ten years before
LookBackDateSamples ==
    {None, DateV(2024, 1, 5), DateV(2016, 11, 6), DateV(2016, 11, 5),
     DateV(2016, 1, 1), DateV(2015, 12, 31)}

NotificationDateSamples == {None, DateV(2024, 3, 1), DateV(2016, 3, 1)}

DefenseDueDateSamples == {None, DateV(2024, 2, 1), DateV(2024, 4, 1)}

DriverIdDueDateSamples == {None, DateV(2015, 12, 31)}

DatedRecords ==
    {[ValidRecord EXCEPT !["violation_date"] = vd,
                         !["notification_date"] = nd,
                         !["defense_due_date"] = dd,
                         !["driver_id_due_date"] = id] :
        vd \in LookBackDateSamples, nd \in NotificationDateSamples,
        dd \in DefenseDueDateSamples, id \in DriverIdDueDateSamples}

SpeedOver == <<"3", "5", "0", " ", "k", "m", "/", "h">>

SpeedRecords ==
    {[ValidRecord EXCEPT !["measured_speed"] = ms,
                         !["considered_speed"] = cs,
                         !["speed_limit"] = sl] :
        ms \in {None, Str(SpeedOver), IntV(350), Str(<<"6", "0", " ", "k", "m", "/", "h">>)},
        cs \in {None, Str(<<"7", "0">>)},
        sl \in {None, Str(<<"6", "0">>), Str(<<"4", "0", "0">>)}}

(***************************************************************************)
(* Mapping files and the arguments of the store's operations               *)
(***************************************************************************)
\* number of operations on the mapping store in one run
MaxStoreCalls == 3

StoreMappings ==
    JsonDict(<< <<"brazil", << <<LabelAIT, "fine_number">> >>>>,
                <<"scenario", ScenarioMapping>> >>)

\* a file of another installation: no "brazil", and a field name that is not
\* a canonical field
ForeignMappings ==
    JsonDict(<< <<"elsewhere", << <<LabelPlaca, "plate_text">> >>>> >>)

\* a file that holds a JSON array
ArrayFile == FileOf(<<"[", "]">>)

\* a file cut off after its first key
TruncatedFile == FileOf(<<"{", "\n", " ", " ", "\"", "brazil", "\"">>)

FileSamples ==
    {NoFile, FileOf(JsonDump(StoreMappings)), FileOf(JsonDump(ForeignMappings)),
     ArrayFile, TruncatedFile}

\* a label with the characters JSON escapes
LabelQuoted == <<"N", "\"", "\\", "\n">>

AddJurisdictions == {"brazil", "elsewhere"}

AddLabels == {LabelAIT, LabelQuoted}

AddFields == {"amount", "plate_text"}

(***************************************************************************)
(* State                                                                   *)
(***************************************************************************)
VARIABLES
    client,        \* who drives the run: "pipeline" parses documents and
                   \* validates records, "configuration" works on the store
    mappings,      \* FieldMappingConfig.mappings
    current_jurisdiction,  \* FieldMappingConfig.current_jurisdiction
    config_file,   \* the file at FieldMappingConfig.config_file
    call,          \* the last operation on the store, and what it gave
    calls_left,    \* operations on the store the run still makes
    self_jurisdiction,     \* PDFParser.jurisdiction
    doc,           \* the document behind pdf_path
    jurisdiction,  \* the jurisdiction the parser is asked for
    op,            \* the extraction that has run: "none", a strategy, "Multi"
                   \* or "ParsePdf"
    validate,      \* the validate argument of parse_pdf
    result,        \* what that extraction returned
    fine_data,     \* a strategy's fine_data at its closing check
    invoked,       \* the strategies MultiStrategyParser.parse has called
    data,          \* the record given to validate_fine_data
    strict,        \* its strict argument; PDFParser.strict_validation
    today,         \* date.today() / datetime.now() during validation
    validated,     \* validate_fine_data has run
    validator,     \* the FineDataValidator's errors and warnings lists
    outcome,       \* what validate_fine_data gave its caller
    default_config,        \* the module's _default_config: 0 for None, or the
                           \* index in configs of the instance it refers to
    configs,       \* the FieldMappingConfig instances created so far
    threads,       \* per thread: its PDFParser and where the thread stands
    fines,         \* the rows of the table fines
    sequence       \* the AUTOINCREMENT counter of fines (sqlite_sequence)

vars == <<client, mappings, current_jurisdiction, config_file, call, calls_left,
          self_jurisdiction, doc, jurisdiction, op, validate, result, fine_data,
          invoked, data, strict, today, validated, validator, outcome,
          default_config, configs, threads, fines, sequence>>

\* the variables of one parser with its store, and of one validation
parsing == <<client, mappings, current_jurisdiction, config_file, call, calls_left,
             self_jurisdiction, doc, jurisdiction, op, validate, result, fine_data,
             invoked, data, strict, today, validated, validator, outcome>>

process == <<default_config, configs, threads>>

database == <<fines, sequence>>

extraction == <<op, validate, result, fine_data, invoked>>

validation == <<validated, validator, outcome>>

store == <<mappings, current_jurisdiction, config_file, call, calls_left,
           self_jurisdiction>>

inputs == <<client, doc, jurisdiction, data, strict, today>>

\* What an operation on the store gave its caller, with its arguments
Call(name, j, pdf_field, canonical_field, returned, raised, warned, mapping) ==
    [name |-> name, jurisdiction |-> j, pdf_field |-> pdf_field,
     canonical_field |-> canonical_field, returned |-> returned, raised |-> raised,
     warned |-> warned, mapping |-> mapping]

NoCall == Call("none", "", <<>>, "", FALSE, FALSE, FALSE, <<>>)

\* PDFParser.__init__(jurisdiction): "if not self.field_config.set_jurisdiction(
\* jurisdiction): self.jurisdiction = 'brazil'"; the store's own
\* current_jurisdiction starts as 'brazil'
InitialJurisdiction(loaded, j) == IF Loaded(loaded, j) THEN j ELSE "brazil"

\* number of threads that each construct a PDFParser and use it
ThreadCount == 2

Threads == 1..ThreadCount

\* the jurisdictions the threads' parsers are constructed with and switched
\* to; "elsewhere" is not loaded
ParserJurisdictions == {"brazil", "radar", "elsewhere"}

\* a thread before it constructs its parser.  jurisdiction and field_config
\* are the parser's attributes; created, requested, argument and config are
\* locals of the call the thread is in; used is the mapping its last
\* extraction got from get_mapping
NewThread ==
    [pc |-> "start", jurisdiction |-> "", field_config |-> 0, created |-> 0,
     requested |-> "", argument |-> "", config |-> 0, used |-> <<>>]

\* FieldMappingConfig.__init__: the mappings of the default file, 'brazil'
NewConfig == [mappings |-> DefaultMappings, current_jurisdiction |-> "brazil"]

ProcessAtStart ==
    /\ default_config = 0
    /\ configs = <<>>
    /\ threads = [t \in Threads |-> NewThread]

\* the largest id the table's AUTOINCREMENT counter reaches
MaxRowId == 4

\* the column is NULL
Null == "NULL"

FineNumbers == {"F1", "F2"}

\* what save_fine is given: a fine_number (or None) and an amount, or a dict
\* without the key 'fine_number'
FineInputs ==
    {[fine_number |-> fn, amount |-> a] : fn \in FineNumbers \cup {Null}, a \in {100, 200}}
        \cup {[amount |-> 100]}

DatabaseAtStart ==
    /\ fines = {}
    /\ sequence = 0

\* what every run starts with, once the store is loaded
ParserAtStart ==
    /\ current_jurisdiction = InitialJurisdiction(mappings, jurisdiction)
    /\ self_jurisdiction = InitialJurisdiction(mappings, jurisdiction)
    /\ call = NoCall
    /\ calls_left = MaxStoreCalls
    /\ op = "none"
    /\ validate = FALSE
    /\ result = ReturnNone
    /\ fine_data = EmptyDict
    /\ invoked = <<>>
    /\ validated = FALSE
    /\ validator = NewValidator
    /\ outcome = Returns(TRUE, <<>>, <<>>)

Init ==
    /\ today \in Todays
    /\ \/ /\ \E dj \in DocInputs : doc = dj[1] /\ jurisdiction = dj[2]
          /\ data = ScenarioRecord
          /\ strict = FALSE
          /\ client = "pipeline"
          /\ mappings = DefaultMappings
          /\ config_file = FileOf(JsonDump(DefaultMappings))
       \/ /\ doc = EmptyDoc
          /\ jurisdiction = "brazil"
          /\ data \in Records \cup DatedRecords \cup SpeedRecords
          /\ strict \in BOOLEAN
          /\ client = "pipeline"
          /\ mappings = DefaultMappings
          /\ config_file = FileOf(JsonDump(DefaultMappings))
       \/ /\ doc = EmptyDoc
          /\ jurisdiction = "brazil"
          /\ data = ScenarioRecord
          /\ strict = FALSE
          /\ client = "configuration"
          /\ \E file \in FileSamples : mappings = ConstructedFrom(file)
          /\ config_file \in FileSamples
    /\ ParserAtStart
    /\ ProcessAtStart
    /\ DatabaseAtStart

\* FieldMappingConfig.load_config()
LoadConfigCall ==
    /\ client = "configuration"
    /\ calls_left > 0
    /\ calls_left' = calls_left - 1
    /\ \E r \in {LoadConfig(mappings, config_file)} :
           /\ mappings' = r.mappings
           /\ call' = Call("load_config", "", <<>>, "", r.returned, FALSE, FALSE, <<>>)
    /\ UNCHANGED <<current_jurisdiction, config_file, self_jurisdiction,
                   inputs, extraction, validation>>
    /\ UNCHANGED <<process, database>>

\* Faulty variant of JurisdictionAfterGet: get_mapping makes the jurisdiction
\* it is asked for the current one
RequestedSelected(current, j) == j

\* current_jurisdiction after get_mapping(jurisdiction): "jurisdiction =
\* 'brazil'" of the fall back assigns the local name, the store is only read
\* ("in self.mappings", "self.mappings.get")
JurisdictionAfterGet(current, j) == current

\* FieldMappingConfig.get_mapping(jurisdiction)
GetMappingCall ==
    /\ client = "configuration"
    /\ calls_left > 0
    /\ calls_left' = calls_left - 1
    /\ \E j \in Jurisdictions :
           /\ call' = IF GetMappingRaises(mappings, j)
                      THEN Call("get_mapping", j, <<>>, "", FALSE, TRUE,
                                GetMappingWarns(mappings, j), <<>>)
                      ELSE Call("get_mapping", j, <<>>, "", FALSE, FALSE,
                                GetMappingWarns(mappings, j), GetMapping(mappings, j))
           /\ current_jurisdiction' = JurisdictionAfterGet(current_jurisdiction, j)
    /\ UNCHANGED <<mappings, config_file, self_jurisdiction,
                   inputs, extraction, validation>>
    /\ UNCHANGED <<process, database>>

\* FieldMappingConfig.set_jurisdiction(jurisdiction)
SetJurisdictionCall ==
    /\ client = "configuration"
    /\ calls_left > 0
    /\ calls_left' = calls_left - 1
    /\ \E j \in Jurisdictions :
           /\ current_jurisdiction' = IF SetJurisdictionReturns(mappings, j)
                                      THEN j ELSE current_jurisdiction
           /\ call' = Call("set_jurisdiction", j, <<>>, "",
                           SetJurisdictionReturns(mappings, j), FALSE, FALSE, <<>>)
    /\ UNCHANGED <<mappings, config_file, self_jurisdiction,
                   inputs, extraction, validation>>
    /\ UNCHANGED <<process, database>>

\* PDFParser.set_jurisdiction(jurisdiction)
ParserSetJurisdiction ==
    /\ client = "configuration"
    /\ calls_left > 0
    /\ calls_left' = calls_left - 1
    /\ \E j \in Jurisdictions :
           /\ current_jurisdiction' = IF SetJurisdictionReturns(mappings, j)
                                      THEN j ELSE current_jurisdiction
           /\ self_jurisdiction' = IF SetJurisdictionReturns(mappings, j)
                                   THEN j ELSE self_jurisdiction
           /\ call' = Call("PDFParser.set_jurisdiction", j, <<>>, "",
                           SetJurisdictionReturns(mappings, j), FALSE, FALSE, <<>>)
    /\ UNCHANGED <<mappings, config_file, inputs, extraction, validation>>
    /\ UNCHANGED <<process, database>>

\* FieldMappingConfig.add_mapping(jurisdiction, pdf_field, canonical_field)
AddMappingCall ==
    /\ client = "configuration"
    /\ calls_left > 0
    /\ calls_left' = calls_left - 1
    /\ \E j \in AddJurisdictions, pdf_field \in AddLabels, canonical_field \in AddFields :
           /\ mappings' = AddMapping(mappings, j, pdf_field, canonical_field)
           /\ call' = Call("add_mapping", j, pdf_field, canonical_field, FALSE,
                           AddMappingRaises(mappings), FALSE, <<>>)
    /\ UNCHANGED <<current_jurisdiction, config_file, self_jurisdiction,
                   inputs, extraction, validation>>
    /\ UNCHANGED <<process, database>>

\* FieldMappingConfig.save_config(): open(output_file, 'w') fails and leaves
\* the file, or it empties the file and json.dump writes the text, all of it
\* or, when a write fails, the characters written until then
SaveConfigCall ==
    /\ client = "configuration"
    /\ calls_left > 0
    /\ calls_left' = calls_left - 1
    /\ \/ /\ config_file' = FileOf(JsonDump(mappings))
          /\ call' = Call("save_config", "", <<>>, "", TRUE, FALSE, FALSE, <<>>)
       \/ /\ \E k \in 0..Len(JsonDump(mappings)) :
                 config_file' = Interrupted(JsonDump(mappings), k)
          /\ call' = Call("save_config", "", <<>>, "", FALSE, FALSE, FALSE, <<>>)
       \/ /\ config_file' = config_file
          /\ call' = Call("save_config", "", <<>>, "", FALSE, FALSE, FALSE, <<>>)
    /\ UNCHANGED <<mappings, current_jurisdiction, self_jurisdiction,
                   inputs, extraction, validation>>
    /\ UNCHANGED <<process, database>>

\* StructuredParsingStrategy.parse(pdf_path, text, field_mapping), with the
\* mapping get_mapping returned
StructuredStrategyParse ==
    /\ client = "pipeline"
    /\ op = "none"
    /\ ~GetMappingRaises(mappings, jurisdiction)
    /\ op' = "Structured"
    /\ fine_data' = StructuredFineData(PdfPath, doc.text, GetMapping(mappings, jurisdiction))
    /\ result' = ExceptReturnNone(ReturnIfFineNumber(fine_data'))
    /\ UNCHANGED <<validate, invoked, inputs, store, validation>>
    /\ UNCHANGED <<process, database>>

\* RegexParsingStrategy.parse(pdf_path, text, field_mapping)
RegexStrategyParse ==
    /\ client = "pipeline"
    /\ op = "none"
    /\ ~GetMappingRaises(mappings, jurisdiction)
    /\ op' = "Regex"
    /\ fine_data' = RegexFineData(PdfPath, doc.text, GetMapping(mappings, jurisdiction))
    /\ result' = ExceptReturnNone(ReturnIfFineNumber(fine_data'))
    /\ UNCHANGED <<validate, invoked, inputs, store, validation>>
    /\ UNCHANGED <<process, database>>

\* TableParsingStrategy.parse(pdf_path, text, field_mapping): fine_data is not
\* built when the document cannot be opened
TableStrategyParse ==
    /\ client = "pipeline"
    /\ op = "none"
    /\ ~GetMappingRaises(mappings, jurisdiction)
    /\ op' = "Table"
    /\ fine_data' = IF doc.io = "ok"
                    THEN TableFineData(PdfPath, doc.text,
                                       GetMapping(mappings, jurisdiction), doc)
                    ELSE EmptyDict
    /\ result' = TableParse(PdfPath, doc.text, GetMapping(mappings, jurisdiction), doc)
    /\ UNCHANGED <<validate, invoked, inputs, store, validation>>
    /\ UNCHANGED <<process, database>>

\* MultiStrategyParser.parse(pdf_path, jurisdiction)
MultiParse ==
    /\ client = "pipeline"
    /\ op = "none"
    /\ op' = "Multi"
    /\ \E r \in {MultiStrategyParse(PdfPath, jurisdiction, mappings, doc)} :
           /\ result' = r.result
           /\ invoked' = r.invoked
    /\ current_jurisdiction' = JurisdictionAfterGet(current_jurisdiction, jurisdiction)
    /\ UNCHANGED <<validate, fine_data, inputs, mappings, config_file, call,
                   calls_left, self_jurisdiction, validation>>
    /\ UNCHANGED <<process, database>>

\* PDFParser.parse_pdf(pdf_path, validate); validate_fine_data builds a
\* validator of its own and its verdict is only logged
ParsePdfCall ==
    /\ client = "pipeline"
    /\ op = "none"
    /\ op' = "ParsePdf"
    /\ validate' \in BOOLEAN
    /\ result' = ParsePdf(PdfPath, validate', self_jurisdiction, strict, mappings,
                          doc, today)
    /\ current_jurisdiction' = JurisdictionAfterGet(current_jurisdiction, self_jurisdiction)
    /\ UNCHANGED <<fine_data, invoked, inputs, mappings, config_file, call,
                   calls_left, self_jurisdiction, validation>>
    /\ UNCHANGED <<process, database>>

\* Faulty variant of DataAfterValidate: the plate check writes the plate it
\* cleaned back to the record
CleanedPlateWritten(record) ==
    IF Get(record, "license_plate").t = "str"
    THEN Put(record, "license_plate", Str(CleanedPlate(Get(record, "license_plate").s)))
    ELSE record

\* the record once validate has returned or raised: the checks read it with
\* data.get and assign only to their locals ("cleaned = ...", "amount =
\* float(amount)")
DataAfterValidate(record) == record

\* validate_fine_data(data, strict)
ValidateRecord ==
    /\ client = "pipeline"
    /\ ~validated
    /\ validated' = TRUE
    /\ \E v \in {RunChecks(data, today)} :
           /\ validator' = ValidatorAfter(v, strict)
           /\ outcome' = Escalate(ValidateReturn(v), strict)
    /\ data' = DataAfterValidate(data)
    /\ UNCHANGED <<client, doc, jurisdiction, strict, today, store, extraction>>
    /\ UNCHANGED <<process, database>>

Next ==
    \/ LoadConfigCall
    \/ GetMappingCall
    \/ SetJurisdictionCall
    \/ ParserSetJurisdiction
    \/ AddMappingCall
    \/ SaveConfigCall
    \/ StructuredStrategyParse
    \/ RegexStrategyParse
    \/ TableStrategyParse
    \/ MultiParse
    \/ ParsePdfCall
    \/ ValidateRecord

Spec == Init /\ [][Next]_vars

(***************************************************************************)
(* Threads.  Each thread constructs a PDFParser and then extracts with it  *)
(* or switches its jurisdiction.  A step is what a thread does between two *)
(* points at which the interpreter can switch threads; the construction of *)
(* a FieldMappingConfig reads a file and is such a point.                  *)
(***************************************************************************)
At(t, pc) == threads[t].pc = pc

\* Faulty variant of MappingJurisdiction: the store's current jurisdiction
\* decides
CurrentJurisdictionUsed(argument, current) == current

\* get_mapping(jurisdiction): "if jurisdiction is None: jurisdiction =
\* self.current_jurisdiction"; parse_pdf passes self.jurisdiction, a str
MappingJurisdiction(argument, current) == argument

\* PDFParser.__init__(jurisdiction): "self.jurisdiction = jurisdiction", up
\* to the call of get_field_mapping_config
ConstructParser(t) ==
    /\ At(t, "start")
    /\ \E j \in ParserJurisdictions :
           threads' = [threads EXCEPT ![t].jurisdiction = j, ![t].pc = "check"]
    /\ UNCHANGED <<default_config, configs, parsing, database>>

\* get_field_mapping_config: "if _default_config is None"
CheckDefaultConfig(t) ==
    /\ At(t, "check")
    /\ threads' = [threads EXCEPT ![t].pc = IF default_config = 0
                                            THEN "create" ELSE "return"]
    /\ UNCHANGED <<default_config, configs, parsing, database>>

\* "FieldMappingConfig(config_file)", the right-hand side of the assignment
CreateConfig(t) ==
    /\ At(t, "create")
    /\ configs' = Append(configs, NewConfig)
    /\ threads' = [threads EXCEPT ![t].created = Len(configs) + 1,
                                  ![t].pc = "assign"]
    /\ UNCHANGED <<default_config, parsing, database>>

\* "_default_config = ..."
AssignDefaultConfig(t) ==
    /\ At(t, "assign")
    /\ default_config' = threads[t].created
    /\ threads' = [threads EXCEPT ![t].pc = "return"]
    /\ UNCHANGED <<configs, parsing, database>>

\* "return _default_config", assigned to self.field_config
ReturnDefaultConfig(t) ==
    /\ At(t, "return")
    /\ threads' = [threads EXCEPT ![t].field_config = default_config,
                                  ![t].created = 0,
                                  ![t].pc = "configured"]
    /\ UNCHANGED <<default_config, configs, parsing, database>>

\* the end of PDFParser.__init__: "if not self.field_config.set_jurisdiction(
\* jurisdiction): self.jurisdiction = 'brazil'"
InitSetJurisdiction(t) ==
    /\ At(t, "configured")
    /\ \E c \in {threads[t].field_config} :
           /\ configs' = IF SetJurisdictionReturns(configs[c].mappings,
                                                   threads[t].jurisdiction)
                         THEN [configs EXCEPT ![c].current_jurisdiction =
                                                  threads[t].jurisdiction]
                         ELSE configs
           /\ threads' = [threads EXCEPT
                  ![t].jurisdiction = InitialJurisdiction(configs[c].mappings, @),
                  ![t].pc = "idle"]
    /\ UNCHANGED <<default_config, parsing, database>>

\* parse_pdf: "self.multi_strategy_parser.parse(pdf_path, self.jurisdiction)"
BeginParsePdf(t) ==
    /\ At(t, "idle")
    /\ threads' = [threads EXCEPT ![t].argument = threads[t].jurisdiction,
                                  ![t].pc = "parse"]
    /\ UNCHANGED <<default_config, configs, parsing, database>>

\* MultiStrategyParser.parse: "config = get_field_mapping_config();
\* field_mapping = config.get_mapping(jurisdiction)"; _default_config is set
\* by now
ParseGetMapping(t) ==
    /\ At(t, "parse")
    /\ threads' = [threads EXCEPT
           ![t].config = default_config,
           ![t].used = GetMapping(configs[default_config].mappings,
                           MappingJurisdiction(threads[t].argument,
                               configs[default_config].current_jurisdiction)),
           ![t].pc = "mapped"]
    /\ UNCHANGED <<default_config, configs, parsing, database>>

\* the strategies run on field_mapping and parse_pdf returns; the locals of
\* the call are gone
EndParsePdf(t) ==
    /\ At(t, "mapped")
    /\ threads' = [threads EXCEPT ![t].argument = "", ![t].config = 0,
                                  ![t].used = <<>>, ![t].pc = "idle"]
    /\ UNCHANGED <<default_config, configs, parsing, database>>

\* PDFParser.set_jurisdiction: "if self.field_config.set_jurisdiction(
\* jurisdiction)"
BeginSetJurisdiction(t) ==
    /\ At(t, "idle")
    /\ \E j \in ParserJurisdictions, c \in {threads[t].field_config} :
           IF SetJurisdictionReturns(configs[c].mappings, j)
           THEN /\ configs' = [configs EXCEPT ![c].current_jurisdiction = j]
                /\ threads' = [threads EXCEPT ![t].requested = j,
                                              ![t].pc = "setting"]
           ELSE UNCHANGED <<configs, threads>>
    /\ UNCHANGED <<default_config, parsing, database>>

\* "self.jurisdiction = jurisdiction; return True"
EndSetJurisdiction(t) ==
    /\ At(t, "setting")
    /\ threads' = [threads EXCEPT ![t].jurisdiction = threads[t].requested,
                                  ![t].requested = "",
                                  ![t].pc = "idle"]
    /\ UNCHANGED <<default_config, configs, parsing, database>>

ThreadsInit ==
    /\ today \in Todays
    /\ doc = EmptyDoc
    /\ jurisdiction = "brazil"
    /\ data = ScenarioRecord
    /\ strict = FALSE
    /\ client = "threads"
    /\ mappings = DefaultMappings
    /\ config_file = FileOf(JsonDump(DefaultMappings))
    /\ ParserAtStart
    /\ ProcessAtStart
    /\ DatabaseAtStart

ThreadsNext ==
    \E t \in Threads :
        \/ ConstructParser(t)
        \/ CheckDefaultConfig(t)
        \/ CreateConfig(t)
        \/ AssignDefaultConfig(t)
        \/ ReturnDefaultConfig(t)
        \/ InitSetJurisdiction(t)
        \/ BeginParsePdf(t)
        \/ ParseGetMapping(t)
        \/ EndParsePdf(t)
        \/ BeginSetJurisdiction(t)
        \/ EndSetJurisdiction(t)

ThreadsSpec == ThreadsInit /\ [][ThreadsNext]_vars

(***************************************************************************)
(* FineModel on the table fines: id INTEGER PRIMARY KEY AUTOINCREMENT,     *)
(* fine_number TEXT UNIQUE, the data columns (amount stands for them), and *)
(* the two flags with DEFAULT 0.                                           *)
(***************************************************************************)
Row(id, fine_number, amount, payment_event_created, driver_id_event_created) ==
    [id |-> id, fine_number |-> fine_number, amount |-> amount,
     payment_event_created |-> payment_event_created,
     driver_id_event_created |-> driver_id_event_created]

\* the rows the UNIQUE constraint sets against a new row; NULLs never conflict
Conflicting(rows, fine_number) ==
    {r \in rows : fine_number # Null /\ r.fine_number = fine_number}

\* INSERT OR REPLACE INTO fines (fine_number, ..., pdf_path): the conflicting
\* row is deleted and the new row gets the next id and the flags' defaults
InsertOrReplace(rows, id, fine_number, amount) ==
    (rows \ Conflicting(rows, fine_number)) \cup {Row(id, fine_number, amount, 0, 0)}

\* FineModel.save_fine(fine_data); fine_data['fine_number'] raises KeyError
\* before the statement runs when the key is missing, and save_fine returns
\* False
SaveFine ==
    /\ client = "database"
    /\ sequence < MaxRowId
    /\ \E input \in FineInputs :
           IF "fine_number" \in DOMAIN input
           THEN /\ fines' = InsertOrReplace(fines, sequence + 1, input.fine_number,
                                            input.amount)
                /\ sequence' = sequence + 1
           ELSE UNCHANGED <<fines, sequence>>
    /\ UNCHANGED <<parsing, process>>

\* FineModel.mark_payment_event_created(fine_id)
MarkPaymentEventCreated ==
    /\ client = "database"
    /\ \E fine_id \in 1..MaxRowId :
           fines' = {IF r.id = fine_id THEN [r EXCEPT !.payment_event_created = 1]
                     ELSE r : r \in fines}
    /\ UNCHANGED <<sequence, parsing, process>>

\* FineModel.mark_driver_id_event_created(fine_id)
MarkDriverIdEventCreated ==
    /\ client = "database"
    /\ \E fine_id \in 1..MaxRowId :
           fines' = {IF r.id = fine_id THEN [r EXCEPT !.driver_id_event_created = 1]
                     ELSE r : r \in fines}
    /\ UNCHANGED <<sequence, parsing, process>>

DatabaseInit ==
    /\ today \in Todays
    /\ doc = EmptyDoc
    /\ jurisdiction = "brazil"
    /\ data = ScenarioRecord
    /\ strict = FALSE
    /\ client = "database"
    /\ mappings = DefaultMappings
    /\ config_file = FileOf(JsonDump(DefaultMappings))
    /\ ParserAtStart
    /\ ProcessAtStart
    /\ DatabaseAtStart

DatabaseNext ==
    \/ SaveFine
    \/ MarkPaymentEventCreated
    \/ MarkDriverIdEventCreated

DatabaseSpec == DatabaseInit /\ [][DatabaseNext]_vars

(***************************************************************************)
(* Properties of extraction                                                *)
(***************************************************************************)
\* the mapping the parser resolves for the jurisdiction it is asked for
ActiveMapping == GetMapping(mappings, jurisdiction)

StrategyNames == {"Structured", "Regex", "Table"}

\* a candidate record with a non-null identifier
Usable(candidate) == candidate.some /\ Get(candidate.rec, "fine_number") # None

\* the first usable of the three candidates, none when there is none
FirstUsable(structured, regex, table) ==
    IF Usable(structured) THEN structured
    ELSE IF Usable(regex) THEN regex
    ELSE IF Usable(table) THEN table
    ELSE ReturnNone

\* C1: for a readable document with non-empty text, MultiStrategyParser.parse
\* returns exactly the candidate of the first of Structured, Regex, Table whose
\* candidate has a non-null identifier (so Structured's when Structured and
\* Regex both have one), and none exactly when no strategy has such a candidate.
C1_FirstUsableCandidate ==
    (op = "Multi" /\ doc.io = "ok" /\ doc.text # <<>>) =>
        result = FirstUsable(StructuredParse(PdfPath, doc.text, ActiveMapping),
                             RegexParse(PdfPath, doc.text, ActiveMapping),
                             TableParse(PdfPath, doc.text, ActiveMapping, doc))

\* C1 witness: Structured and Regex both give a usable candidate, the two
\* differ, and the parser returned Structured's
C1_StructuredWinsOverRegex ==
    /\ op = "Multi"
    /\ doc.io = "ok"
    /\ Usable(StructuredParse(PdfPath, doc.text, ActiveMapping))
    /\ Usable(RegexParse(PdfPath, doc.text, ActiveMapping))
    /\ StructuredParse(PdfPath, doc.text, ActiveMapping)
           # RegexParse(PdfPath, doc.text, ActiveMapping)
    /\ result = StructuredParse(PdfPath, doc.text, ActiveMapping)

\* text is empty or holds whitespace only
Blank(text) == \A i \in 1..Len(text) : IsSpace(text[i])

\* C2: when the document's text is empty or whitespace only, the parser
\* returns none and has invoked no strategy.
C2_BlankTextInvokesNoStrategy ==
    (op = "Multi" /\ Blank(doc.text)) => (result = ReturnNone /\ invoked = <<>>)

\* C2 witness: a readable document whose text is whitespace, parsed to none
\* with no strategy invoked
C2_WhitespaceTextParsed ==
    /\ op = "Multi"
    /\ doc.io = "ok"
    /\ doc.text # <<>>
    /\ Blank(doc.text)
    /\ result = ReturnNone
    /\ invoked = <<>>

\* C3: a strategy's parse never raises; it returns either a record whose
\* fine_number is a non-empty string or none.
C3_RecordWithIdentifierOrNone ==
    op \in StrategyNames =>
        /\ ~result.raised
        /\ IF result.some
           THEN /\ Get(result.rec, "fine_number").t = "str"
                /\ Get(result.rec, "fine_number").s # <<>>
           ELSE result = ReturnNone

\* C3 witness: a strategy that captured a plate but no identifier returned none
C3_NoIdentifierGivesNone ==
    /\ op \in StrategyNames
    /\ Truthy(Get(fine_data, "license_plate"))
    /\ ~Truthy(Get(fine_data, "fine_number"))
    /\ result = ReturnNone

\* the lines of the document's text, each stripped
TextLines == [i \in 1..Len(Split(doc.text, "\n")) |-> Strip(Split(doc.text, "\n")[i])]

BeginsWithLabel(line) ==
    \E k \in 1..Len(ActiveMapping) : StartsWith(line, ActiveMapping[k][1])

\* the field of the first label, in mapping order, that the line begins with
FieldOfLine(line) ==
    ActiveMapping[SetMin({k \in 1..Len(ActiveMapping) :
                              StartsWith(line, ActiveMapping[k][1])})][2]

\* a line that holds a value: not blank, and beginning with no label
ValueLine(line) == line # <<>> /\ ~BeginsWithLabel(line)

\* a field's value as its type has it: a date, a number, or the text
Coerced(field, value) ==
    IF field \in DateKeys THEN parse_date(value)
    ELSE IF field = "amount" THEN AmountToFloat(value)
    ELSE Str(value)

\* C4 as stated: whenever a line beginning with a mapping label is directly
\* followed by a value line, Structured returns a record that holds that
\* value, coerced, in the label's field.
C4_ValueLineAlwaysExtracted ==
    op = "Structured" =>
        \A i \in 1..(Len(TextLines) - 1) : \A k \in 1..Len(ActiveMapping) :
            (StartsWith(TextLines[i], ActiveMapping[k][1]) /\ ValueLine(TextLines[i + 1]))
                => /\ result.some
                   /\ Get(result.rec, ActiveMapping[k][2])
                          = Coerced(ActiveMapping[k][2], TextLines[i + 1])

\* C4 amended: a value line directly after a label line is the captured
\* value, coerced, of the field of the first mapping label the label line
\* begins with, unless a later line opens the same field again; Structured
\* returns the captured record when it holds an identifier and none otherwise.
C4_ValueLineCaptured ==
    op = "Structured" =>
        /\ result = IF Truthy(Get(fine_data, "fine_number"))
                    THEN ReturnDict(fine_data) ELSE ReturnNone
        /\ \A i \in 1..(Len(TextLines) - 1) :
               (/\ BeginsWithLabel(TextLines[i])
                /\ ValueLine(TextLines[i + 1])
                /\ \A j \in (i + 2)..Len(TextLines) :
                       BeginsWithLabel(TextLines[j])
                           => FieldOfLine(TextLines[j]) # FieldOfLine(TextLines[i]))
                   => Get(fine_data, FieldOfLine(TextLines[i]))
                          = Coerced(FieldOfLine(TextLines[i]), TextLines[i + 1])

\* C4 witness: Structured returned a record whose amount is the coerced value
\* line that follows the amount label
C4_AmountLineReturned ==
    /\ op = "Structured"
    /\ \E i \in 1..(Len(TextLines) - 1) :
           /\ TextLines[i] = LabelValor
           /\ ValueLine(TextLines[i + 1])
           /\ result.some
           /\ Truthy(Get(result.rec, "amount"))
           /\ Get(result.rec, "amount") = Coerced("amount", TextLines[i + 1])

\* the scenario: the mapping {PLACA -> license_plate, VALOR DA MULTA -> amount}
\* and the text "PLACA\nXYZ9Z88\nVALOR DA MULTA\nR$ 250,00\n"
IsScenario == doc.text = ScenarioText /\ ActiveMapping = ScenarioMapping

Fields(messages) == {messages[i][2] : i \in 1..Len(messages)}

Members(messages) == {messages[i] : i \in 1..Len(messages)}

\* C5 as stated: in the scenario Structured yields a record with
\* license_plate "XYZ9Z88" and amount 250.0.
C5_ScenarioYieldsRecord ==
    (op = "Structured" /\ IsScenario) =>
        /\ result.some
        /\ Get(result.rec, "license_plate") = Str(LinePlate)
        /\ Get(result.rec, "amount") = Num(250, 0)

\* C5 amended: in the scenario Structured captures license_plate "XYZ9Z88"
\* and amount 250.0 but, with no identifier captured, returns none; validating
\* a record with that plate, that amount and no identifier reports the
\* missing-identifier error and no error for license_plate or amount.
C5_ScenarioCapturedNotReturned ==
    /\ (op = "Structured" /\ IsScenario) =>
           /\ Get(fine_data, "license_plate") = Str(LinePlate)
           /\ Get(fine_data, "amount") = Num(250, 0)
           /\ Get(fine_data, "fine_number") = None
           /\ result = ReturnNone
    /\ (/\ validated
        /\ Get(data, "license_plate") = Str(LinePlate)
        /\ Get(data, "amount") = Num(250, 0)
        /\ Get(data, "fine_number") = None) =>
           /\ ~outcome.raised
           /\ ~outcome.is_valid
           /\ <<"required", "fine_number">> \in Members(outcome.errors)
           /\ Fields(outcome.errors) \cap {"license_plate", "amount"} = {}

\* C5 witness: the scenario was parsed by Structured and the record it
\* captured was validated
C5_ScenarioParsedAndValidated ==
    /\ op = "Structured"
    /\ IsScenario
    /\ validated
    /\ data = fine_data
    /\ <<"required", "fine_number">> \in Members(outcome.errors)

AmountText == <<"R", "$", " ", "1", ".", "2", "3", "4", ",", "5", "6">>

\* the number each sample amount text stands for; 0.0 for the unparsable ones
ExpectedAmount(raw) ==
    IF raw = AmountText THEN Num(123456, 2)
    ELSE IF raw = <<"R", "$", " ", "2", "5", "0", ",", "0", "0">> THEN Num(250, 0)
    ELSE IF raw = <<"1", ".", "5">> THEN Num(15, 0)
    ELSE Num(0, 0)

\* the raw amount text the strategy that ran meets in the document, as a set
RawAmountMet ==
    {a \in AmountSamples :
        \/ op = "Structured" /\ doc.text = StackedText(LabelValor, a)
        \/ op = "Regex" /\ doc.text = InlineText(LabelValor, a)
        \/ op = "Table" /\ doc.pages = FieldTable(LabelValor, a)}

\* C6: each strategy turns the raw amount text into a number without raising:
\* "R$ 1.234,56" becomes 1234.56 (currency symbol and thousands separators
\* stripped, comma as decimal separator), unparsable text becomes 0.0.
C6_AmountCoercion ==
    (doc.io = "ok" /\ jurisdiction = "brazil") =>
        \A a \in RawAmountMet :
            /\ ~result.raised
            /\ result.some
            /\ Get(result.rec, "amount") = ExpectedAmount(a)

\* C6 witness: a strategy met "R$ 1.234,56" and returned amount 1234.56
C6_AmountTextCoerced ==
    /\ AmountText \in RawAmountMet
    /\ result.some
    /\ Get(result.rec, "amount") = Num(123456, 2)

\* C7: in a returned record a field for which no value was captured is null
\* (amount: a number, 0.0 by default); no field is the empty string.
C7_NoEmptyStringField ==
    (op \in StrategyNames /\ result.some) =>
        /\ \A f \in CanonicalFields : Get(result.rec, f) # Str(<<>>)
        /\ Get(result.rec, "amount").t = "num"

\* the index of the first case-insensitive occurrence of label in the
\* document's text, 0 when there is none
FirstOccurrence(label) ==
    IF \E p \in 1..Len(doc.text) : LabelMatchesAt(doc.text, label, p)
    THEN SetMin({p \in 1..Len(doc.text) : LabelMatchesAt(doc.text, label, p)})
    ELSE 0

\* s without one leading colon or dash
WithoutSeparator(s) == IF s # <<>> /\ s[1] \in {":", "-"} THEN Tail(s) ELSE s

\* what follows that occurrence on its own line, after an optional colon or
\* dash, trimmed
RestOfLabelLine(label) ==
    IF FirstOccurrence(label) = 0 THEN <<>>
    ELSE Strip(WithoutSeparator(Strip(
             SubSeq(doc.text, FirstOccurrence(label) + Len(label),
                    LineEnd(doc.text, FirstOccurrence(label) + Len(label)) - 1))))

\* C24: the value the Regex strategy captures for a label is the trimmed rest
\* of the line of the label's first occurrence; when nothing follows the
\* label on that line no value is captured for it, and the following line is
\* never taken.
C24_ValueFromLabelLine ==
    op = "Regex" =>
        \A k \in 1..Len(ActiveMapping) :
            Get(fine_data, ActiveMapping[k][2])
                = IF RestOfLabelLine(ActiveMapping[k][1]) = <<>>
                  THEN InitFineData(PdfPath)[ActiveMapping[k][2]]
                  ELSE RegexConvertValue(ActiveMapping[k][2],
                                         RestOfLabelLine(ActiveMapping[k][1]))

\* a row with text in its label cell
Labelled(row) == row = <<>> \/ Strip(row[1]) # <<>>

LabelledTable(table) == [table EXCEPT !.rows = SelectSeq(@, Labelled)]

LabelledPage(page) ==
    [page EXCEPT !.tables = [j \in 1..Len(@) |-> LabelledTable(@[j])]]

\* the document without the table rows whose label cell is empty
LabelledRowsOnly ==
    [doc EXCEPT !.pages = [i \in 1..Len(@) |-> LabelledPage(@[i])]]

\* C28: a table row whose first cell is empty contributes no value to any
\* field: the Table strategy extracts what it extracts from the document
\* without such rows.
C28_EmptyLabelCellIgnored ==
    (op = "Table" /\ doc.io = "ok") =>
        fine_data = TableFineData(PdfPath, doc.text, ActiveMapping, LabelledRowsOnly)

\* the field of the longest mapping label the line begins with
FieldOfLongestLabel(line) ==
    ActiveMapping[CHOOSE k \in 1..Len(ActiveMapping) :
                      /\ StartsWith(line, ActiveMapping[k][1])
                      /\ \A m \in 1..Len(ActiveMapping) :
                             StartsWith(line, ActiveMapping[m][1])
                                 => Len(ActiveMapping[m][1]) <= Len(ActiveMapping[k][1])][2]

\* C29: a line that begins with two mapping labels, one a prefix of the
\* other, is attributed to the field of the longer label in every ordering
\* of the mapping: the value line after it is that field's captured value.
C29_LongestLabelWins ==
    op = "Structured" =>
        \A i \in 1..(Len(TextLines) - 1) :
            (/\ BeginsWithLabel(TextLines[i])
             /\ ValueLine(TextLines[i + 1])
             /\ \A j \in (i + 2)..Len(TextLines) :
                    BeginsWithLabel(TextLines[j])
                        => FieldOfLongestLabel(TextLines[j])
                               # FieldOfLongestLabel(TextLines[i]))
                => Get(fine_data, FieldOfLongestLabel(TextLines[i]))
                       = Coerced(FieldOfLongestLabel(TextLines[i]), TextLines[i + 1])

\* C25: extraction and validation leave the mapping store alone: no call of
\* MultiStrategyParser.parse, PDFParser.parse_pdf or validate changes the
\* store's mapping set or its active jurisdiction, so no sequence of them does.
C25_StoreUnchangedByPipeline ==
    [][(op' # op \/ validated' # validated) =>
           /\ mappings' = mappings
           /\ current_jurisdiction' = current_jurisdiction]_vars

\* C25 witness: a document was parsed for a jurisdiction the store does not
\* hold, so that get_mapping fell back, the record was validated, and the
\* store holds the mapping set and the active jurisdiction it started with
C25_ParsedWithFallBack ==
    /\ op = "Multi"
    /\ result.some
    /\ validated
    /\ ~Loaded(mappings, jurisdiction)
    /\ mappings = DefaultMappings
    /\ current_jurisdiction = "brazil"

(***************************************************************************)
(* Properties of validation                                                *)
(***************************************************************************)
\* a field that is absent from the record: null or the empty string
Absent(field) == Get(data, field) \in {None, Str(<<>>)}

\* C8: when fine_number, license_plate or violation_date is absent,
\* validation returns is_valid false with an error that names the field, in
\* strict and in non-strict mode.
C8_MissingRequiredFieldReported ==
    validated =>
        \A f \in {"fine_number", "license_plate", "violation_date"} :
            Absent(f) => /\ ~outcome.raised
                         /\ ~outcome.is_valid
                         /\ <<"required", f>> \in Members(outcome.errors)

\* three letters, a digit, a letter or digit, two digits, once "-" and " "
\* are removed and case is ignored: ABC1234 or ABC1D23
PlateShaped(plate) ==
    LET p == Without(plate, {"-", " "})
    IN  /\ Len(p) = 7
        /\ \A i \in 1..3 : IsUpper(p[i]) \/ IsLower(p[i])
        /\ IsDigit(p[4])
        /\ IsDigit(p[5]) \/ IsUpper(p[5]) \/ IsLower(p[5])
        /\ IsDigit(p[6]) /\ IsDigit(p[7])

\* the messages of a list that the plate's format check can have added
PlateFormatMessages(messages) ==
    {m \in Members(messages) : m[2] = "license_plate" /\ m[1] # "required"}

\* the verdict for the record with a well-formed plate in place of its own
VerdictWithGoodPlate ==
    ValidateFineData([data EXCEPT !["license_plate"] = Str(OldPlate)], strict, today)

\* C9: a plate shaped ABC1234 or ABC1D23 (separators removed, upper-cased)
\* adds no error and no warning; any other non-empty plate string adds one
\* warning and no error, so without strict mode the verdict is the one of a
\* well-formed plate, and with strict mode the record is invalid.
C9_PlateFormatIsWarning ==
    (validated /\ Get(data, "license_plate").t = "str"
               /\ Get(data, "license_plate").s # <<>>) =>
        IF PlateShaped(Get(data, "license_plate").s)
        THEN /\ PlateFormatMessages(validator.errors) = {}
             /\ PlateFormatMessages(validator.warnings) = {}
             /\ outcome = VerdictWithGoodPlate
        ELSE /\ PlateFormatMessages(validator.warnings) = {<<"format", "license_plate">>}
             /\ ~strict => /\ PlateFormatMessages(validator.errors) = {}
                           /\ outcome.raised = VerdictWithGoodPlate.raised
                           /\ outcome.is_valid = VerdictWithGoodPlate.is_valid
                           /\ outcome.errors = VerdictWithGoodPlate.errors
             /\ (strict /\ ~outcome.raised) =>
                    /\ ~outcome.is_valid
                    /\ <<"format", "license_plate">> \in Members(outcome.errors)

\* C9 witness: a record with plate "AB123" was validated without strict mode
\* and is valid, with the plate's warning
C9_MalformedPlateStillValid ==
    /\ validated
    /\ ~strict
    /\ Get(data, "license_plate") = Str(ShortPlate)
    /\ ~outcome.raised
    /\ outcome.is_valid
    /\ <<"format", "license_plate">> \in Members(outcome.warnings)

\* C10: without strict mode validation returns is_valid true exactly when the
\* errors list is empty; with strict mode it returns is_valid true exactly
\* when non-strict validation gives no errors and no warnings, its errors are
\* the non-strict errors followed by the non-strict warnings, and its
\* warnings list is empty.
C10_StrictEscalatesWarnings ==
    validated =>
        /\ ~outcome.raised
        /\ ~strict => outcome.is_valid = (outcome.errors = <<>>)
        /\ strict =>
               /\ ~ValidateFineData(data, FALSE, today).raised
               /\ outcome.is_valid
                      = (/\ ValidateFineData(data, FALSE, today).errors = <<>>
                         /\ ValidateFineData(data, FALSE, today).warnings = <<>>)
               /\ outcome.errors = ValidateFineData(data, FALSE, today).errors
                                       \o ValidateFineData(data, FALSE, today).warnings
               /\ outcome.warnings = <<>>

\* C11: validation never raises: for every record, whatever the values of
\* its fields, every check ends with entries in errors or warnings (or
\* nothing) and validate returns a result.
C11_ValidateNeverRaises ==
    validated => ~validator.raised /\ ~outcome.raised

\* C12: a validation call, strict or not, leaves the record it is given
\* unchanged: every field has the same value after the call as before.
C12_ValidateLeavesRecord ==
    [][validated' # validated => data' = data]_vars

\* C12 witness: a record with the plate "abc-1234", which the plate check
\* cleans to ABC1234, was validated, and still holds "abc-1234"
C12_DashedPlateKept ==
    /\ validated
    /\ ~outcome.raised
    /\ Get(data, "license_plate") = Str(DashedPlate)
    /\ PlateFormatMessages(validator.warnings) = {}

\* the day ten years before day, as the n of a date
TenYearsBefore(day) == day.n - LookBackYears * 10000

\* C21: every date field that holds a date more than 10 years before today
\* gets a warning for that field, and a date 10 years old or younger gets no
\* such warning.
C21_LookBackWindow ==
    (validated /\ ~outcome.raised) =>
        \A i \in 1..Len(DateFields) :
            Get(data, DateFields[i]).t = "date" =>
                (<<"very_old", DateFields[i]>> \in Members(validator.warnings))
                    = (Get(data, DateFields[i]).n < TenYearsBefore(today))

\* C22: a record whose defense due date and notification date are dates, the
\* first earlier than the second, gets a warning, with or without a violation
\* date.
C22_DefenseBeforeNotificationWarned ==
    (/\ validated
     /\ ~outcome.raised
     /\ Get(data, "defense_due_date").t = "date"
     /\ Get(data, "notification_date").t = "date"
     /\ Get(data, "defense_due_date").n < Get(data, "notification_date").n) =>
        <<"before_notification", "defense_due_date">> \in Members(validator.warnings)

\* the speed field holds a number, as such or as the first digits of a string
HoldsSpeed(field) ==
    \/ Get(data, field).t = "num"
    \/ Get(data, field).t = "str" /\ HasDigit(Get(data, field).s)

\* C23: a speed field that holds a number above 300 gets a warning, also when
\* it is the only speed field of the record; measured and considered speed
\* both present with measured below considered get a warning.
C23_SpeedChecks ==
    (validated /\ ~outcome.raised) =>
        /\ (\E i \in 1..Len(SpeedFields) :
               /\ HoldsSpeed(SpeedFields[i])
               /\ NumLess(IntV(MaxPlausibleSpeed), SpeedVal(Get(data, SpeedFields[i])))) =>
               <<"very_high", "speed">> \in Members(validator.warnings)
        /\ (/\ HoldsSpeed("measured_speed")
            /\ HoldsSpeed("considered_speed")
            /\ NumLess(SpeedVal(Get(data, "measured_speed")),
                       SpeedVal(Get(data, "considered_speed")))) =>
               <<"measured_below_considered", "speed">> \in Members(validator.warnings)

(***************************************************************************)
(* Properties of PDFParser.parse_pdf                                       *)
(***************************************************************************)
\* C13: parse_pdf returns the extracted record whenever extraction found an
\* identifier, valid or not: for every document, parse_pdf with validation
\* enabled returns what parse_pdf with validation disabled returns.
C13_ValidationKeepsRecord ==
    (op = "ParsePdf" /\ validate) =>
        result = ParsePdf(PdfPath, FALSE, self_jurisdiction, strict, mappings, doc, today)

\* C20: when the document cannot be read, the extraction call gives its
\* caller an error, which is distinct from the none result of a document in
\* which no strategy found an identifier.
C20_ReadFailurePropagates ==
    (op \in {"Multi", "ParsePdf"} /\ doc.io # "ok") => result.raised

(***************************************************************************)
(* Properties of the mapping store                                         *)
(***************************************************************************)
\* a step that is the call of the store's operation name
StoreStep(name) == calls_left' = calls_left - 1 /\ call'.name = name

\* a file that is missing, or whose text is not JSON, or is JSON that is no
\* mapping from jurisdiction names to mappings
Malformed(file) ==
    \/ ~file.exists
    \/ ~JsonLoad(file.text).ok
    \/ JsonLoad(file.text).value.type # "dict"

\* C14: a load of a missing or malformed file reports failure and leaves the
\* store as it was: the mapping set and the active jurisdiction are the same
\* after the failed load as before.
C14_FailedLoadLeavesStore ==
    [][(StoreStep("load_config") /\ Malformed(config_file)) =>
           /\ ~call'.returned
           /\ mappings' = mappings
           /\ current_jurisdiction' = current_jurisdiction]_vars

\* the dictionary get_mapping is to return for a jurisdiction
DictionaryOf(j) ==
    IF Loaded(mappings, j) THEN Lookup(mappings.items, j)
    ELSE IF Loaded(mappings, "brazil") THEN Lookup(mappings.items, "brazil")
    ELSE <<>>

\* C15: get_mapping(j) returns the dictionary of j when j is loaded and the
\* dictionary of "brazil" otherwise, reports the fall back, and changes
\* neither the mappings nor the active jurisdiction.
C15_GetMappingFallsBack ==
    [][StoreStep("get_mapping") =>
           /\ ~call'.raised
           /\ call'.mapping = DictionaryOf(call'.jurisdiction)
           /\ call'.warned = ~Loaded(mappings, call'.jurisdiction)
           /\ mappings' = mappings
           /\ current_jurisdiction' = current_jurisdiction]_vars

\* C16: set_jurisdiction(name), of the store and of the parser, returns true
\* and makes name the active jurisdiction exactly when name is a loaded
\* jurisdiction; for an unknown name it returns false and leaves the active
\* jurisdiction; it never changes the mappings.
C16_SetJurisdictionKnownOnly ==
    [][(StoreStep("set_jurisdiction") \/ StoreStep("PDFParser.set_jurisdiction")) =>
           /\ call'.returned = Loaded(mappings, call'.jurisdiction)
           /\ current_jurisdiction' = IF Loaded(mappings, call'.jurisdiction)
                                      THEN call'.jurisdiction
                                      ELSE current_jurisdiction
           /\ StoreStep("PDFParser.set_jurisdiction") =>
                  self_jurisdiction' = IF Loaded(mappings, call'.jurisdiction)
                                       THEN call'.jurisdiction
                                       ELSE self_jurisdiction
           /\ StoreStep("set_jurisdiction") => self_jurisdiction' = self_jurisdiction
           /\ mappings' = mappings]_vars

\* C16 witness: the parser was switched to the loaded jurisdiction
\* "scenario", and a later call with the unknown name "elsewhere" returned
\* false and left "scenario" active
C16_UnknownNameRefused ==
    /\ call.name = "PDFParser.set_jurisdiction"
    /\ call.jurisdiction = "elsewhere"
    /\ ~call.returned
    /\ ~Loaded(mappings, "elsewhere")
    /\ current_jurisdiction = "scenario"
    /\ self_jurisdiction = "scenario"

\* the canonical field names a mapping set uses
FieldsOf(set) ==
    UNION {{set.items[i][2][k][2] : k \in 1..Len(set.items[i][2])} :
           i \in 1..Len(set.items)}

\* the field names a call of the store is given by its caller or by the file
Supplied(c, file) ==
    IF c.name = "add_mapping" THEN {c.canonical_field}
    ELSE IF c.name = "load_config" /\ file.exists /\ JsonLoad(file.text).ok
         THEN FieldsOf(JsonLoad(file.text).value)
    ELSE {}

\* C17 as stated: in every reachable state of the store every canonical
\* field name used in a jurisdiction's mapping belongs to the enumerated set
\* of canonical fields.
C17_FieldsCanonical ==
    FieldsOf(mappings) \subseteq CanonicalFields

\* C17 as the store keeps it: the store checks no field name; a step adds to
\* the field names in use only names that the loaded file holds or that
\* add_mapping is given, so they stay in the enumerated set only as long as
\* files and callers supply enumerated names.
C17_FieldsComeFromInputs ==
    [][/\ FieldsOf(mappings') \subseteq FieldsOf(mappings) \cup Supplied(call', config_file)
       /\ (FieldsOf(mappings) \cup Supplied(call', config_file) \subseteq CanonicalFields)
              => FieldsOf(mappings') \subseteq CanonicalFields]_vars

\* C17 witness: add_mapping was given the canonical field "amount" for a
\* store of canonical names, and the names are still canonical
C17_CanonicalNameAdded ==
    /\ call.name = "add_mapping"
    /\ ~call.raised
    /\ call.canonical_field = "amount"
    /\ "amount" \in FieldsOf(mappings)
    /\ FieldsOf(mappings) \subseteq CanonicalFields

\* C18: a load that follows a successful save to the same path succeeds and
\* leaves the mapping set that was saved.
C18_SaveLoadRoundTrip ==
    [][(call.name = "save_config" /\ call.returned /\ StoreStep("load_config")) =>
           /\ mappings' = mappings
           /\ mappings.type = "dict" => call'.returned]_vars

\* C18 witness: a mapping whose label holds a quote, a backslash and a
\* newline was added, saved and loaded again
C18_QuotedLabelReloaded ==
    /\ call.name = "load_config"
    /\ call.returned
    /\ calls_left = MaxStoreCalls - 3
    /\ config_file = FileOf(JsonDump(mappings))
    /\ \E i \in 1..Len(mappings.items) :
           HasKey(mappings.items[i][2], LabelQuoted)

\* C19: a save that fails never leaves a partial file: after it the file
\* holds its complete previous content or the complete new mapping set.
C19_SaveFailsAtomically ==
    [][StoreStep("save_config") =>
           \/ config_file' = config_file
           \/ config_file' = FileOf(JsonDump(mappings))]_vars

(***************************************************************************)
(* Properties of parsers that share the store, and of the fines table      *)
(***************************************************************************)
\* C26: the mapping an extraction uses is the one of the jurisdiction held by
\* the parser that started it, whatever another parser's construction or
\* set_jurisdiction did to the store in between.
C26_OwnJurisdictionDecides ==
    \A t \in Threads :
        At(t, "mapped") =>
            threads[t].used = GetMapping(configs[threads[t].config].mappings,
                                         threads[t].jurisdiction)

\* C26 witness: a parser constructed with 'radar' extracted with the radar
\* mapping while the store it shares with the other parser has another
\* jurisdiction current
C26_RadarParserAfterSwitch ==
    \E t \in Threads, u \in Threads :
        /\ At(t, "mapped")
        /\ threads[t].jurisdiction = "radar"
        /\ threads[t].used = RadarMapping
        /\ u # t
        /\ threads[u].field_config = threads[t].field_config
        /\ threads[t].config = threads[t].field_config
        /\ configs[threads[t].config].current_jurisdiction = "brazil"

\* C27: at most one FieldMappingConfig instance is ever created, and every
\* caller of get_field_mapping_config receives that instance.
C27_SingleStore ==
    /\ Len(configs) <= 1
    /\ \A t \in Threads, u \in Threads :
           (threads[t].field_config # 0 /\ threads[u].field_config # 0)
               => threads[t].field_config = threads[u].field_config

\* the table holds a row for fine_number with the flag at 1
FlagSet(rows, fine_number, flag) ==
    \E r \in rows : r.fine_number = fine_number /\ r[flag] = 1

\* C30: a fine_number has at most one row, and a flag that is 1 for a
\* fine_number stays 1 through every save_fine and mark_*_event_created.
C30_FlagsSurviveSave ==
    [][/\ \A fn \in FineNumbers :
              Cardinality({r \in fines' : r.fine_number = fn}) <= 1
       /\ \A fn \in FineNumbers :
              \A flag \in {"payment_event_created", "driver_id_event_created"} :
                  FlagSet(fines, fn, flag) => FlagSet(fines', fn, flag)]_vars

=============================================================================
